---------------------------- MODULE Spec2Model ----------------------------
(***************************************************************************)
(* A model of the ICE bridge library (m3/ice.py): the ICE session object,  *)
(* its reader thread (communicator), the calling thread issuing            *)
(* synchronous requests, and the peer board at the other end of the        *)
(* serial link; and of the debugger built on it (m3/m3_mbus.py,            *)
(* m3/m3_gdb.py): MBusInterface, the target controller PrcCtrl with its    *)
(* halt-monitoring thread, the GDB command controller GdbCtrl, the GDB     *)
(* front end GdbRemote, and the target chip they talk to.                  *)
(*                                                                         *)
(* Bytes are integers 0..255, byte strings are sequences of bytes.  A      *)
(* frame on the wire towards the board is a record                        *)
(*   [type, event_id, length, payload]                                     *)
(* where length is the header's length byte and payload the bytes that     *)
(* follow it.  The wire from the board is a byte stream (rx): the reader   *)
(* cuts it into frames itself.                                             *)
(***************************************************************************)
EXTENDS Integers, Sequences, FiniteSets, TLC

VARIABLES
    \* ---- fields of the ICE object
    event_id,        \* next event id to send
    last_event_id,   \* event id of the last accepted frame, -1 at first
    sync_queue,      \* Queue.Queue(1): sequence of at most one <<type, msg>>
    d_frag,          \* fragment buffers
    b_frag,
    B_frag,
    capabilities,    \* sequence of characters (bytes)
    version,         \* [attr, chosen, major, minor]: self.major / self.minor
    dev,             \* "absent" | "open" | "closed"
    stop_request,    \* communicator_stop_request
    stop_response,   \* communicator_stop_response
    \* ---- the serial link
    tx,              \* frames written by the library, not yet read by the board
    rx,              \* bytes written by the board, not yet read by the library
    \* ---- threads
    caller,          \* the calling thread: position and locals
    reader,          \* the communicator thread: position and locals
    threads,         \* two threads that call send_message at once: positions and locals
    \* ---- the board
    peer,            \* what the board has done so far (counters)
    \* ---- observation (history) variables
    sent,            \* every frame written to the serial device, in order
    replies,         \* <<type, msg>> of the board's answer to the k-th request
    returns,         \* <<type, msg>> returned by the k-th send_message call
    results,         \* outcome of every finished top-level call
    dispatched,      \* every frame the reader cut from rx, in order
    emitted,         \* every invocation of a synthetic-type handler
    \* ---- the target chip (PRC) at the far end of MBus
    tgt,             \* [mem, state, pc, irq]
    \* ---- MBusInterface (m3/m3_mbus.py) and the MBus link below it
    mbus_out,        \* messages handed to ice.mbus_send, not yet at the target
    bpp,             \* b++ events of the target, not yet given to _callback
    callback_queue,  \* MBusInterface.callback_queue
    \* ---- GdbCtrl.PrcCtrl (m3/m3_gdb.py)
    halt_queue,      \* PrcCtrl.queue: the 0xe0 messages
    prc,             \* [flag_addr, halt_cb, base_addr]
    halt_thread,     \* the halt-monitoring thread: position and locals
    \* ---- GdbCtrl and GdbRemote
    displaced_insts, \* GdbCtrl.displaced_insts: (addr, 16) -> instruction
    reqQ,            \* GdbRemote.reqQ
    respQ,           \* GdbRemote.respQ
    ctrl,            \* the controller thread (main loop of cmd_gdb)
    gdb,             \* the GDB client and the RX and TX threads serving it
    \* ---- observation (history) variables
    mbus_log,        \* every message handed to ice.mbus_send, in order
    conn_out,        \* every reply packet the TX thread sent, in order
    done,            \* every finished controller command, in order
    \* ---- the simulator of the board (m3/ice_simulator.py) and its serial port
    sim,             \* the Simulator object and the locals of main_loop
    gen,             \* spurious_message_thread: position and locals
    replay,          \* replay_message_thread: position and locals
    s_in,            \* request frames written to the port, not yet read
    s_out,           \* every frame the simulator wrote to the port, in order
    reads            \* (history) every request main_loop read

iceVars  == <<event_id, last_event_id, sync_queue, d_frag, b_frag, B_frag,
              capabilities, version, dev, stop_request, stop_response>>
linkVars == <<tx, rx>>
histVars == <<sent, replies, returns, results, dispatched, emitted>>
iceAll   == <<iceVars, linkVars, caller, reader, peer, histVars, threads>>
mbusVars == <<mbus_out, bpp, callback_queue>>
prcVars  == <<halt_queue, prc, halt_thread>>
gdbVars  == <<tgt, mbusVars, prcVars, displaced_insts, reqQ, respQ, ctrl, gdb,
              mbus_log, conn_out, done>>
simVars  == <<sim, gen, replay, s_in, s_out, reads>>
vars     == <<iceAll, gdbVars, simVars>>

---------------------------------------------------------------------------
\* Bounds of the model.

\* top-level calls the calling thread makes besides connect()
MaxCalls == 1
\* frames the board sends without being asked (unsolicited ACK/NAK, async)
MaxExtra == 1
\* largest `tries` argument passed to send_message_until_acked
MaxTries == 2
\* NAKs the board answers in all
MaxNaks == 2
\* number of full fragments in the longest message of a fragmented send
MaxFrags == 2
\* largest event id the board puts on its frames
MaxPeerEid == 1
\* fragments the board sends on the streams d, b and B
MaxAsync == 2

\* Program constants.
FRAG_SIZE == 255
DEFAULT_TRIES == 5
MAX_MSG == 255
BYTE == 256
\* the board's baud divider after start
DEFAULT_BAUD_DIVIDER == 174

---------------------------------------------------------------------------
\* Characters (ord values) the model uses.
Chr(s) ==
    CASE s = "V" -> 86  [] s = "v" -> 118 [] s = "X" -> 88  [] s = "x" -> 120
      [] s = "?" -> 63  [] s = "_" -> 95  [] s = "d" -> 100 [] s = "I" -> 73
      [] s = "i" -> 105 [] s = "f" -> 102 [] s = "n" -> 110 [] s = "O" -> 79
      [] s = "o" -> 111 [] s = "B" -> 66  [] s = "b" -> 98  [] s = "M" -> 77
      [] s = "m" -> 109 [] s = "e" -> 101 [] s = "G" -> 71  [] s = "g" -> 103
      [] s = "P" -> 80  [] s = "p" -> 112 [] s = "c" -> 99  [] s = "+" -> 43
      [] s = "Z" -> 90  [] s = "S" -> 83  [] s = "l" -> 108 [] s = "s" -> 115
      [] s = "r" -> 114

RECURSIVE Str(_)
\* the bytes of an ASCII string given as a sequence of one-character strings
Str(cs) == IF cs = <<>> THEN <<>> ELSE <<Chr(Head(cs))>> \o Str(Tail(cs))

Range(f) == {f[i] : i \in DOMAIN f}

\* s[a:b] of Python, 0-based, end exclusive, clipped to the sequence
Slice(s, a, b) ==
    LET lo == IF a < 0 THEN 0 ELSE a
        hi == IF b > Len(s) THEN Len(s) ELSE b
    IN  IF hi <= lo THEN <<>> ELSE SubSeq(s, lo + 1, hi)

\* `needle in hay` for Python strings: the substring test
Contains(hay, needle) ==
    \E i \in 0..(Len(hay) - Len(needle)) :
        Slice(hay, i, i + Len(needle)) = needle

\* bytes(s, 'utf-8') for a string of code points below 0x800
RECURSIVE Utf8(_)
Utf8(cps) ==
    IF cps = <<>> THEN <<>>
    ELSE LET c == Head(cps)
         IN (IF c < 128 THEN <<c>>
             ELSE <<192 + (c \div 64), 128 + (c % 64)>>) \o Utf8(Tail(cps))

\* An argument that is either bytes or a text string: [isBytes, data].
\* `if type(x) != bytes: x = bytes(x, 'utf-8')`
ToBytes(arg) == IF arg.isBytes THEN arg.data ELSE Utf8(arg.data)

AsBytes(bs) == [isBytes |-> TRUE, data |-> bs]
AsText(cps) == [isBytes |-> FALSE, data |-> cps]

\* None and a value, for optional arguments and attributes
None == <<>>
Some(x) == <<x>>

---------------------------------------------------------------------------
\* The library runs on Python 2.7 with the `future` package (setup.py): the
\* model follows Python 2 where the two languages differ (None < 2 is True,
\* str.encode('hex') exists).

\* ICE.VERSIONS
VERSIONS == {<<0, 1>>, <<0, 2>>, <<0, 3>>, <<0, 4>>, <<0, 5>>}

\* the capability string set by __init__, and the ones negotiate_version sets
InitialCapabilities == Str(<<"V", "v", "X", "x">>)
QueryCapabilities   == Str(<<"V", "v", "X", "x", "?">>)
LegacyCapabilities  ==
    Str(<<"V", "v", "X", "x", "d", "I", "i", "f", "O", "o", "G", "g", "P", "p">>)

NoVersion == [attr |-> FALSE, chosen |-> FALSE, major |-> 0, minor |-> 0]

\* a frame as send_message packs it: struct.pack("BBB", type, event_id, length) + msg
Frame(ty, eid, length, msg) ==
    [type |-> ty, event_id |-> eid, length |-> length, payload |-> msg]

\* the bytes of a frame as the board writes it
FrameBytes(ty, eid, msg) == <<ty, eid, Len(msg)>> \o msg

\* send_message with the length taken before the message is encoded
SendMessagePackEarlyLength(msg_type, msg, length) ==
    LET t == ToBytes(msg_type)
        m == ToBytes(msg)
        l == IF length = None THEN Len(msg.data) ELSE length[1]
        none == Frame(0, 0, 0, <<>>)
    IN  IF Len(t) # 1 THEN [exc |-> "FormatError", frame |-> none]
        ELSE IF Len(m) > MAX_MSG THEN [exc |-> "FormatError", frame |-> none]
        ELSE IF l < 0 \/ l >= BYTE THEN [exc |-> "struct.error", frame |-> none]
        ELSE [exc |-> "", frame |-> Frame(t[1], event_id, l, m)]

\* The checks and the packing of send_message, up to the write.  Result:
\*   [exc |-> "" or the exception raised, frame |-> the frame to write].
SendMessagePack(msg_type, msg, length) ==
    LET t == ToBytes(msg_type)
        m == ToBytes(msg)
        l == IF length = None THEN Len(m) ELSE length[1]
        none == Frame(0, 0, 0, <<>>)
    IN  IF Len(t) # 1 THEN [exc |-> "FormatError", frame |-> none]
        ELSE IF Len(m) > MAX_MSG THEN [exc |-> "FormatError", frame |-> none]
        ELSE IF l < 0 \/ l >= BYTE THEN [exc |-> "struct.error", frame |-> none]
        ELSE [exc |-> "", frame |-> Frame(t[1], event_id, l, m)]

\* self.event_id = (self.event_id + 1) % 256
NextEventId(e) == (e + 1) % BYTE

\* a frame in the record of what was written: the frame and the `length`
\* argument of the call that wrote it
Written(f, length) ==
    [type |-> f.type, event_id |-> f.event_id, length |-> f.length,
     payload |-> f.payload, length_arg |-> length]

\* The write of send_message: event_id is advanced, then the frame is written
\* to the serial device.  Without a device (before connect, after destroy) the
\* write raises AttributeError after event_id has been advanced.
WriteFrame(f, length) ==
    /\ event_id' = NextEventId(event_id)
    /\ IF dev = "open"
       THEN /\ tx' = Append(tx, f)
            /\ sent' = Append(sent, Written(f, length))
       ELSE UNCHANGED <<tx, sent>>

NoWrite == UNCHANGED <<event_id, tx, sent>>

---------------------------------------------------------------------------
\* The calling thread.

IdleCaller ==
    [pc |-> "ready", op |-> "", cont |-> "", outer |-> "",
     ty |-> AsBytes(<<>>), msg |-> AsBytes(<<>>), length |-> None,
     tries |-> 0, tries0 |-> 0, rest |-> <<>>, fsent |-> 0, retry |-> TRUE,
     arg |-> <<>>, nsent |-> 0, got |-> <<>>, calls |-> 0, connects |-> 0]

\* the record of a finished top-level call
Outcome(c, kind, exc, val, num) ==
    [op |-> c.op, kind |-> kind, exc |-> exc, val |-> val, num |-> num,
     tries |-> c.tries0, arg |-> c.arg, nsent |-> c.nsent, got |-> c.got]

\* the caller back at top level
Rest(c) ==
    [IdleCaller EXCEPT !.calls = c.calls, !.connects = c.connects]

Finish(c, kind, exc, val, num) ==
    /\ results' = Append(results, Outcome(c, kind, exc, val, num))
    /\ caller' = Rest(c)

\* a call begun at top level: its name and a fresh count
Begin(op) ==
    [IdleCaller EXCEPT !.op = op, !.calls = caller.calls + 1,
                       !.connects = caller.connects]

\* Two threads of one session: the main thread and the watchdog thread
\* reset_mbus of mbus_snooper.
Threads == {"main", "reset_mbus"}

\* a thread outside send_message: the locals of the call (type, msg, the
\* event id packed into buf, the value loaded for the increment), the calls
\* made and the replies they returned
IdleThread ==
    [pc |-> "idle", ty |-> 0, msg |-> <<>>, buf_eid |-> 0, loaded |-> 0,
     calls |-> 0, got |-> <<>>]

\* MBus transport and debugger: bounds, constants and data.

\* packets the GDB client sends in one session
MaxPackets == 2
MaxStepPackets == 3
\* b++ events the target sends that are neither read replies nor halt
\* notifications
MaxChatter == 1
\* read_mem / write_mem calls a direct user of MBusInterface makes
MaxApiCalls == 1
MaxCtrlC == 1
\* requests the host sends to the simulator
MaxSimReqs == 3
\* snooped messages the generator thread of the simulator sends
MaxSnoops == 1
\* the event id of the first request sent to the simulator
SimFirstEid == 254

\* mbus_controller.DEFAULT_PRC_PREFIX
PRC_ADDR == 1
\* the address byte of a memory-read reply (0xe1) and of a halt
\* notification (0xe0)
MEMRD_REPLY == 225
HALT_NOTIFY == 224
\* GdbCtrl.svc_01, asm("SVC #01"), 0xdf01
SVC_01 == 57089

\* A Python integer below 2**32 is modelled by its four base-256 digits,
\* least significant first (TLC's integers stop at 2**31 - 1).
Word(n) ==
    <<n % 256, (n \div 256) % 256, (n \div 65536) % 256, (n \div 16777216) % 256>>

\* the integer of a word whose top digit is below 128
IntOf(w) == w[1] + 256 * w[2] + 65536 * w[3] + 16777216 * w[4]

\* struct.pack(">I", w) and struct.unpack(">I", bs)
Pack32(w) == <<w[4], w[3], w[2], w[1]>>
Unpack32(bs) == <<bs[4], bs[3], bs[2], bs[1]>>

RECURSIVE BitAnd(_, _)
BitAnd(x, y) ==
    IF x = 0 \/ y = 0 THEN 0
    ELSE (x % 2) * (y % 2) + 2 * BitAnd(x \div 2, y \div 2)

RECURSIVE BitOr(_, _)
BitOr(x, y) ==
    IF x = 0 THEN y
    ELSE IF y = 0 THEN x
    ELSE (IF x % 2 = 1 \/ y % 2 = 1 THEN 1 ELSE 0)
         + 2 * BitOr(x \div 2, y \div 2)

\* a & b and a | b on words
WAnd(a, b) == <<BitAnd(a[1], b[1]), BitAnd(a[2], b[2]),
                BitAnd(a[3], b[3]), BitAnd(a[4], b[4])>>
WOr(a, b)  == <<BitOr(a[1], b[1]), BitOr(a[2], b[2]),
                BitOr(a[3], b[3]), BitOr(a[4], b[4])>>

\* w >> 8*k, and (w << 8*k) & 0xffffffff: every left shift of the code is
\* followed by a mask of at most 32 bits
Shr(w, k) == <<IF 1 + k <= 4 THEN w[1 + k] ELSE 0, IF 2 + k <= 4 THEN w[2 + k] ELSE 0,
               IF 3 + k <= 4 THEN w[3 + k] ELSE 0, IF 4 + k <= 4 THEN w[4 + k] ELSE 0>>
Shl(w, k) == <<IF 1 - k >= 1 THEN w[1 - k] ELSE 0, IF 2 - k >= 1 THEN w[2 - k] ELSE 0,
               IF 3 - k >= 1 THEN w[3 - k] ELSE 0, IF 4 - k >= 1 THEN w[4 - k] ELSE 0>>

\* 2 ** size - 1 for size in {8, 16, 32}
Mask(size) == <<255, IF size >= 16 THEN 255 ELSE 0,
                IF size >= 24 THEN 255 ELSE 0, IF size >= 32 THEN 255 ELSE 0>>

\* 0xffffffff - m, the "bitwise not hack" of write_mem
Not32(m) == <<255 - m[1], 255 - m[2], 255 - m[3], 255 - m[4]>>

\* addr & 0xfffffffc, addr & 0x02 and addr & 0x03 for 0 <= addr < 2**31
AndFFFFFFFC(addr) == addr - (addr % 4)
And02(addr) == 2 * ((addr \div 2) % 2)
And03(addr) == addr % 4

\* MBusInterface._align32: [exc, align32]
Align32(addr, size) ==
    LET align32 == AndFFFFFFFC(addr)
    IN  IF size = 32 /\ align32 # AndFFFFFFFC(addr + 3)
        THEN [exc |-> "UnalignedException", align32 |-> align32]
        ELSE IF size = 16 /\ align32 # AndFFFFFFFC(addr + 1)
        THEN [exc |-> "UnalignedException", align32 |-> align32]
        ELSE [exc |-> "", align32 |-> align32]

\* an MBus message as handed to ice.mbus_send(addr, data)
MbusMsg(addr, data) == [addr |-> addr, data |-> data]

\* read_mem: the request for the word around addr
MemRdRequest(align32) ==
    MbusMsg(Pack32(Word(PRC_ADDR * 16 + 3)),
            Pack32(<<0, 0, 0, MEMRD_REPLY>>) \o Pack32(Word(align32))
                \o Pack32(Word(0)))

\* read_mem, fifth step: split the word back to the requested size
ReadMemValue(mem_data, addr, size) ==
    LET mask == Mask(size)
        shift == IF size = 32 THEN 0
                 ELSE IF size = 16 THEN And02(addr)
                 ELSE And03(addr)
    IN  WAnd(Shr(mem_data, shift), mask)

\* write_mem: the word written back, given the word read (orig32)
WriteMemWord(addr, value, size, orig32) ==
    IF size = 32 THEN value
    ELSE LET byte_idx == IF size = 16 THEN And02(addr) ELSE And03(addr)
             mask32   == Shl(Mask(size), byte_idx)
             mask32n  == Not32(mask32)
             value32  == IF size = 16
                         THEN WAnd(WOr(Shl(value, 2), value), mask32)
                         ELSE WAnd(Shl(value, byte_idx), mask32)
         IN  WOr(WAnd(orig32, mask32n), value32)

\* write_mem: the message that writes write32 at align32
MemWrMessage(align32, write32) ==
    MbusMsg(Pack32(Word(PRC_ADDR * 16 + 2)),
            Pack32(Word(align32)) \o Pack32(write32))

\* write_reg(reg, val): struct.pack(">I", reg << 24 | val), val < 2**24 - 1
RegWrMessage(reg, val) ==
    MbusMsg(Pack32(Word(PRC_ADDR * 16)),
            Pack32(<<val % 256, (val \div 256) % 256, (val \div 65536) % 256, reg>>))

\* RegFile.names and RegFile.offsets
RegNames == <<"isr_lr", "sp", "r8", "r9", "r10", "r11", "r4", "r5", "r6", "r7",
              "r0", "r1", "r2", "r3", "r12", "lr", "pc", "xpsr">>
RegOffsets(name) == 4 * ((CHOOSE i \in DOMAIN RegNames : RegNames[i] = name) - 1)

\* hex(n)[2:] and int(ds, 16): a hexadecimal numeral is the sequence of its
\* digits' values
RECURSIVE HexStr(_)
HexStr(n) == IF n < 16 THEN <<n>> ELSE HexStr(n \div 16) \o <<n % 16>>

RECURSIVE ParseHex(_)
ParseHex(ds) ==
    IF Len(ds) = 1 THEN ds[1]
    ELSE 16 * ParseHex(SubSeq(ds, 1, Len(ds) - 1)) + ds[Len(ds)]

\* bs.encode('hex'): two digits for every byte
RECURSIVE EncodeHex(_)
EncodeHex(bs) ==
    IF bs = <<>> THEN <<>>
    ELSE <<Head(bs) \div 16, Head(bs) % 16>> \o EncodeHex(Tail(bs))

\* struct.pack(GdbCtrl.encode_str[n], val) for a value that fits n bytes:
\* little endian
PackLE(n, val) == SubSeq(val, 1, n)

\* a dictionary is a function; d[k] = v and del d[k]
DictSet(d, k, v) == [x \in (DOMAIN d) \cup {k} |-> IF x = k THEN v ELSE d[x]]
DictDel(d, k) == [x \in (DOMAIN d) \ {k} |-> d[x]]

---------------------------------------------------------------------------
\* The target chip.  Its firmware is not part of the library; the model
\* gives it the behaviour the library relies on.

\* the words of target memory the model keeps: code at 0x100..0x10b, the
\* word of the resume flag, the slot of pc in the saved register file
CodeBase == 256
FlagAddr == 512
RegBase  == 768
CodeWords == {CodeBase, CodeBase + 4, CodeBase + 8}
WordAddrs == CodeWords \cup {FlagAddr, RegBase + RegOffsets("pc")}

\* every byte of code differs from every other, and no halfword is the trap
InitByte(x) == (7 * x + 3) % 256
InitMem ==
    [a \in WordAddrs |->
        IF a \in CodeWords
        THEN <<InitByte(a), InitByte(a + 1), InitByte(a + 2), InitByte(a + 3)>>
        ELSE Word(0)]

\* the program: two halfword instructions in a loop
NextPc(pc) == IF pc + 2 >= CodeBase + 4 THEN CodeBase ELSE pc + 2

\* the byte at address x, and the n bytes from x on, in address order
ByteAt(mem, x) == mem[x - (x % 4)][(x % 4) + 1]
BytesAt(mem, x, n) == [i \in 1..n |-> ByteAt(mem, x + i - 1)]

IdleCtrl ==
    [pc |-> "idle", ret |-> <<>>, plan |-> <<>>, vals |-> <<>>, wait |-> FALSE,
     lock |-> FALSE, cmd |-> "", a |-> 0, size |-> 0, val |-> Word(0),
     resp |-> <<>>, spc |-> 0, brk |-> 0, dt |-> FALSE, exc |-> "",
     seen |-> <<>>, log0 |-> 0, before |-> <<>>, table0 |-> <<>>,
     args |-> <<>>, n |-> 0, out0 |-> 0, rep0 |-> 0]

InitGdb ==
    /\ tgt = [mem |-> InitMem, state |-> "running", pc |-> CodeBase, irq |-> FALSE,
              chatter |-> 0]
    /\ mbus_out = <<>>
    /\ bpp = <<>>
    /\ callback_queue = <<>>
    /\ halt_queue = <<>>
    /\ prc = [flag_addr |-> None, halt_cb |-> None, base_addr |-> None,
              local |-> None]
    /\ halt_thread = [pc |-> "first", flag_addr |-> 0, count |-> 0]
    /\ displaced_insts = <<>>
    /\ reqQ = <<>>
    /\ respQ = <<>>
    /\ ctrl = IdleCtrl
    /\ gdb = [sent |-> 0, pending |-> "", rx |-> "none", tx |-> "none", calls |-> 0,
              ctrlc |-> 0, rcvd |-> <<>>]
    /\ mbus_log = <<>>
    /\ conn_out = <<>>
    /\ done = <<>>

---------------------------------------------------------------------------
\* The simulator of the board before it is constructed.

NoSim ==
    [pc |-> "none", args |-> [generate_messages |-> FALSE, replay |-> FALSE],
     event |-> 0, minor |-> None, CLOCK_FREQ |-> None, ein_goc_toggle |-> None,
     req |-> None, pending |-> None,
     i2c_mask_ones |-> 0, i2c_mask_zeros |-> 0, i2c_msg |-> <<>>, i2c_match |-> TRUE,
     mbus_msg |-> <<>>, flow_div |-> None, flow_onoff |-> 0,
     mbus_full_prefix_ones |-> <<0, 0, 0>>, mbus_full_prefix_zeros |-> <<0, 0, 0>>,
     mbus_short_prefix |-> 0, mbus_snoop_enabled |-> 0,
     mbus_broadcast_mask_ones |-> 0, mbus_broadcast_mask_zeros |-> 0,
     mbus_snoop_broadcast_mask_ones |-> 0, mbus_snoop_broadcast_mask_zeros |-> 0,
     mbus_ismaster |-> 0, mbus_should_interrupt |-> 0, mbus_should_prio |-> 0,
     mbus_force_reset |-> 0, s_en_event |-> FALSE, sent |-> 0]

InitSim ==
    /\ sim = NoSim
    /\ gen = [pc |-> "none", k |-> 1, n |-> 0]
    /\ replay = [pc |-> "none", i |-> 1]
    /\ s_in = <<>>
    /\ s_out = <<>>
    /\ reads = <<>>

---------------------------------------------------------------------------
\* The ICE session after construction.

InitIce ==
    /\ event_id = 0
    /\ last_event_id = -1
    /\ sync_queue = <<>>
    /\ d_frag = <<>>
    /\ b_frag = <<>>
    /\ B_frag = <<>>
    /\ capabilities = InitialCapabilities
    /\ version = NoVersion
    /\ dev = "absent"
    /\ stop_request = FALSE
    /\ stop_response = FALSE

Init ==
    /\ InitIce
    /\ tx = <<>>
    /\ rx = <<>>
    /\ caller = IdleCaller
    /\ threads = [t \in Threads |-> IdleThread]
    /\ reader = [pc |-> "none", ty |-> 0, eid |-> 0, length |-> 0, buf |-> <<>>,
                 item |-> <<>>]
    /\ peer = [extra |-> 0, unsolicited |-> 0, async |-> 0, naks |-> 0,
               baud_divider |-> DEFAULT_BAUD_DIVIDER, up |-> TRUE]
    /\ sent = <<>>
    /\ replies = <<>>
    /\ returns = <<>>
    /\ results = <<>>
    /\ dispatched = <<>>
    /\ emitted = <<>>
    /\ InitGdb
    /\ InitSim

---------------------------------------------------------------------------
\* The reader thread (ICE.communicator) and the handlers it calls.

\* min_proto_version("0.<m>"): "" when the call may go on, else the exception.
\* Python 2 orders None below every integer: with self.minor = None the
\* comparison self.minor < minor is True.
MinProtoVersion(m) ==
    IF ~version.attr THEN "NotConnectedError"
    ELSE IF ~version.chosen \/ version.minor < m THEN "VersionError"
    ELSE ""

\* capability(cap): "" when the call may go on, else the exception.
\* self.capabilities exists from __init__ on, so AttributeError never occurs.
Capability(cap) ==
    IF ~Contains(capabilities, <<cap>>) THEN "CapabilityError" ELSE ""

\* a defragger that forgets to empty its buffer after forwarding
DefraggerNoReset(frag, length, msg) ==
    IF length # FRAG_SIZE
    THEN [frag |-> frag \o msg, out |-> Some(frag \o msg)]
    ELSE [frag |-> frag \o msg, out |-> None]

\* The body of d_defragger / b_defragger / B_defragger on a buffer:
\* the buffer afterwards and the message forwarded (None when none is).
Defragger(frag, length, msg) ==
    IF length # FRAG_SIZE
    THEN [frag |-> <<>>, out |-> Some(frag \o msg)]
    ELSE [frag |-> frag \o msg, out |-> None]

\* the types with a handler in msg_handler after __init__
HandledTypes == {Chr("d"), Chr("b"), Chr("B"), Chr("e")}

Synthetic(ty) ==
    CASE ty = Chr("d") -> "d+" [] ty = Chr("b") -> "b+" [] ty = Chr("B") -> "B+"

\* the byte is thrown away whatever the board advertised
EatsByteAlways(ty) == TRUE

\* `if msg_type not in self.capabilities: ... self.dev.read()`
EatsByte(ty) == ~Contains(capabilities, ty)

\* spawn_handler for an asynchronous frame.  Result:
\*   d, b, B : the fragment buffers afterwards
\*   emit    : the synthetic-type invocations made (at most one)
\*   eat     : whether dev.read() is called to throw one byte away
\*   crash   : whether an exception leaves communicator (the thread ends)
\*   gate    : "in" the frame entered a fragment buffer, "dropped" the handler
\*             raised NotConnectedError, "raised" it raised another exception,
\*             "nohandler" no handler is registered for the type, "exit"
\*             e_handler called os._exit
SpawnHandler(ty, eid, length, msg) ==
    LET same == [d |-> d_frag, b |-> b_frag, B |-> B_frag, emit |-> <<>>,
                 eat |-> FALSE, crash |-> FALSE, gate |-> "nohandler"]
        syn(r) == IF r.out = None THEN <<>>
                  ELSE <<[type |-> Synthetic(ty), event_id |-> eid,
                          length |-> Len(r.out[1]), msg |-> r.out[1]]>>
    IN  IF ty = Chr("d")
        THEN LET r == Defragger(d_frag, length, msg)
             IN  [same EXCEPT !.d = r.frag, !.emit = syn(r), !.gate = "in",
                     \* no handler is registered for 'd+'
                     !.eat = (r.out # None /\ EatsByte(Str(<<"d", "+">>)))]
        ELSE IF ty \in {Chr("b"), Chr("B")}
        THEN LET v == MinProtoVersion(2)
                 r == Defragger(IF ty = Chr("b") THEN b_frag ELSE B_frag,
                                length, msg)
                 \* common_bB_formatter: ord(msg[-1:]) raises on an empty message,
                 \* before the buffer is reset
                 bad == r.out # None /\ r.out[1] = <<>>
             IN  IF v = "NotConnectedError" THEN [same EXCEPT !.gate = "dropped"]
                 ELSE IF v # "" THEN [same EXCEPT !.gate = "raised", !.crash = TRUE]
                 ELSE IF ty = Chr("b")
                 THEN [same EXCEPT !.b = IF bad THEN b_frag \o msg ELSE r.frag,
                                   !.emit = syn(r), !.gate = "in", !.crash = bad]
                 ELSE [same EXCEPT !.B = IF bad THEN B_frag \o msg ELSE r.frag,
                                   !.emit = syn(r), !.gate = "in", !.crash = bad]
        ELSE IF ty = Chr("e")
        THEN LET v == MinProtoVersion(4)
             IN  IF v = "NotConnectedError" THEN [same EXCEPT !.gate = "dropped"]
                 ELSE IF v # "" THEN [same EXCEPT !.gate = "raised", !.crash = TRUE]
                 \* os._exit(int(binascii.hexlify(msg), 16)); int('', 16) raises
                 \* ValueError on an empty message
                 ELSE IF msg = <<>> THEN [same EXCEPT !.gate = "raised", !.crash = TRUE]
                 ELSE [same EXCEPT !.gate = "exit", !.crash = TRUE]
        ELSE \* KeyError: no handler
             [same EXCEPT !.eat = EatsByte(<<ty>>)]

\* a reply that loses its payload on the way to the slot
SlotItemTypeOnly(ty, msg) == <<ty, <<>> >>

\* what the reader puts in the reply slot: (msg_type, msg)
SlotItem(ty, msg) == <<ty, msg>>

ReaderAt(pc) ==
    [pc |-> pc, ty |-> 0, eid |-> 0, length |-> 0, buf |-> <<>>, item |-> <<>>]

\* The rest of one turn of the communicator loop once a whole frame has been
\* read: the duplicate check, then the reply slot or the handler.  `rest` is
\* what is left of rx after the frame.
Deliver(ty, eid, length, msg, rest) ==
    LET dup == (eid = last_event_id)
        h == SpawnHandler(ty, eid, length, msg)
        entry(g, eat) == [type |-> ty, event_id |-> eid, length |-> length,
                          msg |-> msg, dup |-> dup, gate |-> g, eat |-> eat,
                          ver |-> version]
    IN
    \* a duplicate is logged; nothing else differs
    /\ last_event_id' = IF dup THEN last_event_id ELSE eid
    /\ IF ty \in {0, 1}
       THEN \* self.sync_queue.put((msg_type, msg)): blocks while the slot is full
            /\ IF sync_queue = <<>>
               THEN /\ sync_queue' = <<SlotItem(ty, msg)>>
                    /\ reader' = ReaderAt("top")
               ELSE /\ UNCHANGED sync_queue
                    /\ reader' = [ReaderAt("put") EXCEPT !.item = SlotItem(ty, msg)]
            /\ rx' = rest
            /\ dispatched' = Append(dispatched, entry("sync", FALSE))
            /\ UNCHANGED <<d_frag, b_frag, B_frag, emitted, caller>>
       ELSE /\ d_frag' = h.d
            /\ b_frag' = h.b
            /\ B_frag' = h.B
            /\ emitted' = emitted \o h.emit
            \* self.dev.read(): one byte, or none within the timeout
            /\ rx' = IF h.eat /\ rest # <<>> THEN Tail(rest) ELSE rest
            /\ reader' = ReaderAt(IF h.gate = "exit" THEN "exited"
                                  ELSE IF h.crash THEN "crashed"
                                  ELSE IF h.eat /\ rest = <<>> THEN "drain"
                                  ELSE "top")
            \* os._exit ends the process, the calling thread with it
            /\ caller' = IF h.gate = "exit"
                         THEN [caller EXCEPT !.pc = "exited"] ELSE caller
            /\ dispatched' = Append(dispatched, entry(h.gate, h.eat))
            /\ UNCHANGED sync_queue

\* while not self.communicator_stop_request.isSet(): ... ; stop_response.set()
ReaderLoop ==
    /\ reader.pc = "top"
    /\ IF stop_request
       THEN /\ reader' = ReaderAt("stopped")
            /\ stop_response' = TRUE
       ELSE /\ reader' = ReaderAt("header")
            /\ UNCHANGED stop_response
    /\ UNCHANGED <<event_id, last_event_id, sync_queue, d_frag, b_frag, B_frag,
                   capabilities, version, dev, stop_request>>
    /\ UNCHANGED <<linkVars, caller, peer, histVars>>
    /\ UNCHANGED <<threads, gdbVars, simVars>>

\* One read of the serial device that returns bytes.  useful_read(3) returns
\* only with three bytes, however long that takes; useful_read(length,
\* check_timeout=True) then takes what there is of the payload and asks for the
\* rest.  With the whole frame read, the rest of the loop's turn follows.
ReaderRead ==
    /\ \/ reader.pc = "header" /\ Len(rx) >= 3
       \/ reader.pc = "payload" /\ rx # <<>>
    /\ LET hdr  == reader.pc = "header"
           ty   == IF hdr THEN rx[1] ELSE reader.ty
           eid  == IF hdr THEN rx[2] ELSE reader.eid
           len  == IF hdr THEN rx[3] ELSE reader.length
           body == IF hdr THEN Slice(rx, 3, Len(rx)) ELSE rx
           need == len - Len(reader.buf)
           take == IF Len(body) < need THEN Len(body) ELSE need
           buf  == reader.buf \o Slice(body, 0, take)
           rest == Slice(body, take, Len(body))
       IN  IF Len(buf) = len
           THEN Deliver(ty, eid, len, buf, rest)
           ELSE /\ reader' = [ReaderAt("payload") EXCEPT !.ty = ty, !.eid = eid,
                                 !.length = len, !.buf = buf]
                /\ rx' = rest
                /\ UNCHANGED <<last_event_id, sync_queue, d_frag, b_frag, B_frag,
                               dispatched, emitted, caller>>
    /\ UNCHANGED <<event_id, capabilities, version, dev, stop_request, stop_response>>
    /\ UNCHANGED <<tx, peer, sent, replies, returns, results>>
    /\ UNCHANGED <<threads, gdbVars, simVars>>

\* a read of the payload returns nothing within the timeout: TimeoutError,
\* the partial frame is skipped
ReaderTimeout ==
    /\ reader.pc = "payload"
    /\ rx = <<>>
    /\ reader' = ReaderAt("top")
    /\ UNCHANGED <<iceVars, linkVars, caller, peer, histVars>>
    /\ UNCHANGED <<threads, gdbVars, simVars>>

\* the blocked sync_queue.put goes through once the slot is free
ReaderPut ==
    /\ reader.pc = "put"
    /\ sync_queue = <<>>
    /\ sync_queue' = <<reader.item>>
    /\ reader' = ReaderAt("top")
    /\ UNCHANGED <<event_id, last_event_id, d_frag, b_frag, B_frag,
                   capabilities, version, dev, stop_request, stop_response>>
    /\ UNCHANGED <<linkVars, caller, peer, histVars>>
    /\ UNCHANGED <<threads, gdbVars, simVars>>

\* self.dev.read() of spawn_handler waiting on an empty line: the next byte
\* to arrive is thrown away
ReaderDrain ==
    /\ reader.pc = "drain"
    /\ rx # <<>>
    /\ rx' = Tail(rx)
    /\ reader' = ReaderAt("top")
    /\ UNCHANGED <<iceVars, tx, caller, peer, histVars>>
    /\ UNCHANGED <<threads, gdbVars, simVars>>

\* ... or the read times out
ReaderDrainTimeout ==
    /\ reader.pc = "drain"
    /\ rx = <<>>
    /\ reader' = ReaderAt("top")
    /\ UNCHANGED <<iceVars, linkVars, caller, peer, histVars>>
    /\ UNCHANGED <<threads, gdbVars, simVars>>

ReaderNext ==
    \/ ReaderLoop
    \/ ReaderDrain
    \/ ReaderDrainTimeout
    \/ ReaderRead
    \/ ReaderTimeout
    \/ ReaderPut

---------------------------------------------------------------------------
\* send_message_until_acked and the calls built on it.

\* The first pair of the board's version list that the library supports
\* (negotiate_version's loop: `if self.major is None and (major, minor) in
\* ICE.VERSIONS`), None when there is none.
RECURSIVE ChooseVersion(_)
ChooseVersion(resp) ==
    IF Len(resp) < 2 THEN None
    ELSE IF <<resp[1], resp[2]>> \in VERSIONS THEN Some(<<resp[1], resp[2]>>)
    ELSE ChooseVersion(Tail(Tail(resp)))

\* one send_message from inside a call: the frame is written and the caller
\* waits on the reply slot, or the call ends with the exception raised
SendFrom(c, cont, outer, ty, msg, length, tries) ==
    LET p == SendMessagePack(ty, msg, length)
    IN  IF p.exc # ""
        THEN /\ NoWrite
             /\ Finish(c, "raise", p.exc, <<>>, 0)
        ELSE IF dev # "open"
        THEN \* self.dev does not exist: AttributeError from self.dev.write
             /\ WriteFrame(p.frame, length)
             /\ Finish(c, "raise", "AttributeError", <<>>, 0)
        ELSE /\ WriteFrame(p.frame, length)
             /\ caller' = [c EXCEPT !.pc = "wait", !.cont = cont, !.outer = outer,
                                    !.ty = ty, !.msg = msg, !.length = length,
                                    !.tries = tries, !.nsent = c.nsent + 1]
             /\ UNCHANGED results

\* a loop that makes one attempt too many: `while tries >= 0`
SendUntilAckedOneMore(c, outer, ty, msg, length, tries) ==
    IF tries < 0
    THEN /\ NoWrite
         /\ Finish(c, "raise", "NAK_Error", <<>>, 0)
    ELSE SendFrom(c, "sua", outer, ty, msg, length, tries)

\* while tries: ack, msg = self.send_message(...) ... ; raise self.NAK_Error
SendUntilAcked(c, outer, ty, msg, length, tries) ==
    IF tries = 0
    THEN /\ NoWrite
         /\ Finish(c, "raise", "NAK_Error", <<>>, 0)
    ELSE SendFrom(c, "sua", outer, ty, msg, length, tries)

\* struct.unpack("!H", resp)[0]
UnpackH(resp) == 256 * resp[1] + resp[2]

\* struct.pack("!BH", ord('b'), div)
PackBH(div) == <<Chr("b"), div \div 256, div % 256>>

\* ice_get_baudrate, from `div` on: the rate returned, None for
\* FormatError("Unknown baud divider?")
BaudOfDivider(div) ==
    IF div = 174 THEN Some(1152200)
    ELSE IF div = 7 THEN Some(3000000)
    ELSE None

\* a session that never asks the board for its capabilities
QueriesCapabilitiesNever(minor) == FALSE

\* negotiate_version: `if self.minor >= 2:` the capabilities are queried
QueriesCapabilities(minor) == minor >= 2

\* what follows the return of send_message_until_acked with `resp`, by the
\* place that called it
AfterAcked(c, resp) ==
    CASE c.outer = "user" ->
            /\ NoWrite
            /\ Finish(c, "return", "", resp, 0)
            /\ UNCHANGED <<capabilities, version>>
      [] c.outer = "neg_V" ->
            IF Len(resp) = 0 \/ Len(resp) % 2 # 0
            THEN /\ NoWrite
                 /\ Finish(c, "raise", "FormatError", <<>>, 0)
                 /\ UNCHANGED <<capabilities, version>>
            ELSE LET v == ChooseVersion(resp)
                 IN  IF v = None
                     THEN \* self.major = self.minor = None; raise self.ICE_Error
                          /\ version' = [NoVersion EXCEPT !.attr = TRUE]
                          /\ NoWrite
                          /\ Finish(c, "raise", "ICE_Error", <<>>, 0)
                          /\ UNCHANGED capabilities
                     ELSE /\ version' = [attr |-> TRUE, chosen |-> TRUE,
                                         major |-> v[1][1], minor |-> v[1][2]]
                          /\ SendUntilAcked(c, "neg_v", AsText(<<Chr("v")>>),
                                            AsBytes(v[1]), None, DEFAULT_TRIES)
                          /\ UNCHANGED capabilities
      [] c.outer = "neg_v" ->
            IF QueriesCapabilities(version.minor)
            THEN \* self.capabilities = 'VvXx?'; self.ice_query_capabilities()
                 /\ capabilities' = QueryCapabilities
                 /\ SendUntilAcked(c, "caps", AsText(<<Chr("?")>>),
                                   AsBytes(<<Chr("?")>>), None, DEFAULT_TRIES)
                 /\ UNCHANGED version
            ELSE /\ capabilities' = LegacyCapabilities
                 /\ NoWrite
                 /\ Finish(c, "return", "", <<>>, 0)
                 /\ UNCHANGED version
      [] c.outer = "caps" ->
            /\ capabilities' = resp
            /\ UNCHANGED version
            /\ IF version.minor # 2
               THEN /\ NoWrite
                    /\ Finish(c, "return", "", <<>>, 0)
               ELSE \* connect: self.goc_set_onoff(False), guarded by
                    \* min_proto_version("0.2") and capability('o')
                    IF ~Contains(resp, <<Chr("o")>>)
                    THEN /\ NoWrite
                         /\ Finish(c, "raise", "CapabilityError", <<>>, 0)
                    ELSE \* set_goc_ein(goc=1): the default clock divisor
                         SendUntilAcked(c, "goc_c", AsText(<<Chr("o")>>),
                                        AsBytes(<<Chr("c"), 97, 168, 0>>), None,
                                        DEFAULT_TRIES)
      [] c.outer = "goc_c" ->
            /\ SendUntilAcked(c, "goc_p", AsText(<<Chr("o")>>),
                              AsBytes(<<Chr("p"), 1>>), None, DEFAULT_TRIES)
            /\ UNCHANGED <<capabilities, version>>
      [] c.outer = "goc_p" ->
            /\ SendUntilAcked(c, "goc_o", AsText(<<Chr("o")>>),
                              AsBytes(<<Chr("o"), 0>>), None, DEFAULT_TRIES)
            /\ UNCHANGED <<capabilities, version>>
      [] c.outer = "goc_o" ->
            /\ NoWrite
            /\ Finish(c, "return", "", <<>>, 0)
            /\ UNCHANGED <<capabilities, version>>
      [] c.outer = "set_baud" ->
            \* self.dev.baudrate = baudrate: the rate the port is switched
            \* to is kept as the number of the outcome
            /\ NoWrite
            /\ Finish(c, "return", "", <<>>, c.arg[2])
            /\ UNCHANGED <<capabilities, version>>
      [] c.outer = "get_baud" ->
            /\ NoWrite
            /\ UNCHANGED <<capabilities, version>>
            /\ IF Len(resp) # 2
               THEN Finish(c, "raise", "struct.error", <<>>, 0)
               ELSE IF BaudOfDivider(UnpackH(resp)) = None
               THEN Finish(c, "raise", "FormatError", <<>>, 0)
               ELSE Finish(c, "return", "", <<>>, BaudOfDivider(UnpackH(resp))[1])

\* send_message returns: self.sync_queue.get(True, self.ONEYEAR)
Got(c) == [c EXCEPT !.got = Append(c.got, sync_queue[1])]

\* the reply to a send_message called directly
ReplySend ==
    /\ caller.pc = "wait"
    /\ caller.cont = "sm"
    /\ sync_queue # <<>>
    /\ sync_queue' = <<>>
    /\ returns' = Append(returns, sync_queue[1])
    /\ Finish(Got(caller), "return", "", sync_queue[1][2], sync_queue[1][1])
    /\ UNCHANGED <<event_id, last_event_id, d_frag, b_frag, B_frag, capabilities,
                   version, dev, stop_request, stop_response>>
    /\ UNCHANGED <<linkVars, reader, peer, sent, replies, dispatched, emitted>>
    /\ UNCHANGED <<threads, gdbVars, simVars>>

\* the reply to a send_message of send_message_until_acked:
\*     ack, msg = self.send_message(msg_type, msg, length)
\*     if ack == 0: return msg
\*     tries -= 1
ReplyUntilAcked ==
    /\ caller.pc = "wait"
    /\ caller.cont = "sua"
    /\ sync_queue # <<>>
    /\ sync_queue' = <<>>
    /\ returns' = Append(returns, sync_queue[1])
    /\ LET ack == sync_queue[1][1]
           msg == sync_queue[1][2]
           c   == Got(caller)
       IN  IF ack = 0
           THEN AfterAcked(c, msg)
           ELSE /\ SendUntilAcked(c, c.outer, c.ty, AsBytes(msg), c.length,
                                  c.tries - 1)
                /\ UNCHANGED <<capabilities, version>>
    /\ UNCHANGED <<last_event_id, d_frag, b_frag, B_frag, dev, stop_request,
                   stop_response>>
    /\ UNCHANGED <<rx, reader, peer, replies, dispatched, emitted>>
    /\ UNCHANGED <<threads, gdbVars, simVars>>

---------------------------------------------------------------------------
\* _fragment_sender and the sends built on it.

\* the loop test of the first loop with `>` for `>=`
MoreFragmentsStrict(msg) == Len(msg) > FRAG_SIZE

\* while len(msg) >= FRAG_SIZE
MoreFragments(msg) == Len(msg) >= FRAG_SIZE

\* The next send_message of _fragment_sender for the caller's locals
\* (rest: msg, fsent: sent, retry): a full fragment from the first loop, or
\* what is left from the second.
FragmentSend(c) ==
    IF MoreFragments(c.rest)
    THEN SendFrom(c, "frag_loop", c.outer, c.ty,
                  AsBytes(Slice(c.rest, 0, FRAG_SIZE)), None, 0)
    ELSE SendFrom(c, "frag_last", c.outer, c.ty, AsBytes(c.rest), None, 0)

\* return sent + ord(resp): ord() raises TypeError unless resp is one byte
NakReturn(c, resp) ==
    /\ NoWrite
    /\ IF Len(resp) = 1
       THEN Finish(c, "return", "", <<>>, c.fsent + resp[1])
       ELSE Finish(c, "raise", "TypeError", <<>>, 0)

\* the reply to a send_message of _fragment_sender
ReplyFragment ==
    /\ caller.pc = "wait"
    /\ caller.cont \in {"frag_loop", "frag_last"}
    /\ sync_queue # <<>>
    /\ sync_queue' = <<>>
    /\ returns' = Append(returns, sync_queue[1])
    /\ LET ack  == sync_queue[1][1]
           resp == sync_queue[1][2]
           c    == Got(caller)
       IN  IF ack = 1 /\ ~(Len(resp) = 0 /\ c.retry)
           THEN NakReturn(c, resp)
           ELSE IF c.cont = "frag_loop"
           THEN \* a NAK without length falls through like an ACK: the
                \* fragment is counted as sent and the next one follows
                FragmentSend([c EXCEPT !.retry = (ack # 1),
                                       !.rest = Slice(c.rest, FRAG_SIZE, Len(c.rest)),
                                       !.fsent = c.fsent + FRAG_SIZE])
           ELSE IF ack = 1
           THEN FragmentSend([c EXCEPT !.retry = FALSE])
           ELSE /\ NoWrite
                /\ Finish(c, "return", "", <<>>, c.fsent + Len(c.rest))
    /\ UNCHANGED <<last_event_id, d_frag, b_frag, B_frag, capabilities, version,
                   dev, stop_request, stop_response>>
    /\ UNCHANGED <<rx, reader, peer, replies, dispatched, emitted>>
    /\ UNCHANGED <<threads, gdbVars, simVars>>

\* The decorators of a guarded call, outermost first: min_proto_version then
\* capability.  [exc, val]: the exception raised and its arguments, exc = ""
\* when the call goes on.
Guard(minor, cap) ==
    LET v == MinProtoVersion(minor)
        k == Capability(cap)
    IN  IF v = "NotConnectedError" THEN [exc |-> v, val |-> <<>>]
        ELSE IF v # ""
        THEN \* VersionError(minor, self.minor)
             [exc |-> v,
              val |-> <<minor, IF version.chosen THEN Some(version.minor) ELSE None>>]
        ELSE IF k # ""
        THEN \* CapabilityError(cap, self.capabilities)
             [exc |-> k, val |-> <<cap, capabilities>>]
        ELSE [exc |-> "", val |-> <<>>]

RECURSIVE Pad4(_)
\* while len(addr) < 4: addr = zero + addr
Pad4(addr) == IF Len(addr) < 4 THEN Pad4(<<0>> \o addr) ELSE addr

\* mbus_send(addr, data)
MbusSendCall(addr, data) ==
    /\ caller.pc = "ready"
    /\ caller.calls < MaxCalls
    /\ LET g == Guard(2, Chr("b"))
           a == ToBytes(addr)
           c == [Begin("mbus_send") EXCEPT !.arg = <<addr, data>>,
                                           !.outer = "user",
                                           !.ty = AsText(<<Chr("b")>>)]
       IN  IF g.exc # ""
           THEN /\ NoWrite
                /\ Finish(c, "raise", g.exc, g.val, 0)
           ELSE IF Len(a) > 4
           THEN /\ NoWrite
                /\ Finish(c, "raise", "FormatError", <<>>, 0)
           ELSE FragmentSend([c EXCEPT !.rest = Pad4(a) \o data])
    /\ UNCHANGED <<last_event_id, sync_queue, d_frag, b_frag, B_frag, capabilities,
                   version, dev, stop_request, stop_response>>
    /\ UNCHANGED <<rx, reader, peer, replies, returns, dispatched, emitted>>
    /\ UNCHANGED <<threads, gdbVars, simVars>>

\* i2c_send(addr, data): msg = struct.pack("B", addr) + data
I2cSendCall(addr, data) ==
    /\ caller.pc = "ready"
    /\ caller.calls < MaxCalls
    /\ LET g == Guard(1, Chr("d"))
           c == [Begin("i2c_send") EXCEPT !.arg = <<addr, data>>,
                                          !.outer = "user",
                                          !.ty = AsText(<<Chr("d")>>)]
       IN  IF g.exc # ""
           THEN /\ NoWrite
                /\ Finish(c, "raise", g.exc, g.val, 0)
           ELSE IF addr < 0 \/ addr >= BYTE
           THEN /\ NoWrite
                /\ Finish(c, "raise", "struct.error", <<>>, 0)
           ELSE FragmentSend([c EXCEPT !.rest = <<addr>> \o data])
    /\ UNCHANGED <<last_event_id, sync_queue, d_frag, b_frag, B_frag, capabilities,
                   version, dev, stop_request, stop_response>>
    /\ UNCHANGED <<rx, reader, peer, replies, returns, dispatched, emitted>>
    /\ UNCHANGED <<threads, gdbVars, simVars>>

---------------------------------------------------------------------------
\* Calls made at top level by the calling thread.

\* n bytes that differ from place to place
Pattern(n) == [i \in 1..n |-> (i * 7) % 251]

\* connect(): open the device, start the reader, negotiate_version()
Connect ==
    /\ caller.pc = "ready"
    /\ caller.connects = 0
    /\ dev = "absent"
    /\ dev' = "open"
    /\ stop_request' = FALSE
    /\ stop_response' = FALSE
    /\ reader' = ReaderAt("top")
    /\ LET c == [IdleCaller EXCEPT !.op = "connect", !.calls = caller.calls,
                                   !.connects = 1, !.tries0 = DEFAULT_TRIES]
           p == SendMessagePack(AsText(<<Chr("V")>>), AsText(<<>>), None)
       IN  \* the device is open by now: the frame is written
           /\ event_id' = NextEventId(event_id)
           /\ tx' = Append(tx, p.frame)
           /\ sent' = Append(sent, Written(p.frame, None))
           /\ caller' = [c EXCEPT !.pc = "wait", !.cont = "sua", !.outer = "neg_V",
                                  !.ty = AsText(<<Chr("V")>>), !.msg = AsText(<<>>),
                                  !.tries = DEFAULT_TRIES, !.nsent = 1]
    /\ UNCHANGED <<last_event_id, sync_queue, d_frag, b_frag, B_frag, capabilities,
                   version>>
    /\ UNCHANGED <<rx, peer, replies, returns, results, dispatched, emitted>>
    /\ UNCHANGED <<threads, gdbVars, simVars>>

\* arguments of the send_message calls of the model
TypeI == AsText(<<Chr("I")>>)
SendArgs ==
    { <<TypeI, AsBytes(<<>>), None>>,
      <<TypeI, AsBytes(<<5, 6>>), None>>,
      \* a text of one character that takes two bytes
      <<TypeI, AsText(<<233>>), None>>,
      <<AsText(<<233>>), AsBytes(<<>>), None>>,
      <<AsBytes(<<>>), AsBytes(<<>>), None>>,
      \* the longest message accepted, and one byte more
      <<TypeI, AsBytes(Pattern(MAX_MSG)), None>>,
      <<TypeI, AsBytes(Pattern(MAX_MSG + 1)), None>>,
      \* an explicit length
      <<TypeI, AsBytes(<<5, 6>>), Some(1)>>,
      <<TypeI, AsBytes(<<>>), Some(BYTE)>> }

\* send_message(msg_type, msg, length) called by the user, on a session that
\* has a device
SendMessageCall(ty, msg, length) ==
    /\ caller.pc = "ready"
    /\ caller.calls < MaxCalls
    /\ dev = "open"
    /\ SendFrom(Begin("send_message"), "sm", "user", ty, msg, length, 0)
    /\ UNCHANGED <<last_event_id, sync_queue, d_frag, b_frag, B_frag, capabilities,
                   version, dev, stop_request, stop_response>>
    /\ UNCHANGED <<rx, reader, peer, replies, returns, dispatched, emitted>>
    /\ UNCHANGED <<threads, gdbVars, simVars>>

\* send_message_until_acked(msg_type, msg, length, tries) called by the user,
\* on a session that has a device
SendUntilAckedCall(ty, msg, length, tries) ==
    /\ caller.pc = "ready"
    /\ caller.calls < MaxCalls
    /\ dev = "open"
    /\ SendUntilAcked([Begin("send_message_until_acked") EXCEPT !.tries0 = tries],
                      "user", ty, msg, length, tries)
    /\ UNCHANGED <<last_event_id, sync_queue, d_frag, b_frag, B_frag, capabilities,
                   version, dev, stop_request, stop_response>>
    /\ UNCHANGED <<rx, reader, peer, replies, returns, dispatched, emitted>>
    /\ UNCHANGED <<threads, gdbVars, simVars>>

\* destroy(): nothing without a device; else ask the reader to stop and wait
Destroy ==
    /\ caller.pc = "ready"
    /\ caller.calls < MaxCalls
    /\ IF dev = "absent"
       THEN /\ Finish(Begin("destroy"), "return", "", <<>>, 0)
            /\ UNCHANGED stop_request
       ELSE /\ stop_request' = TRUE
            /\ caller' = [Begin("destroy") EXCEPT !.pc = "join"]
            /\ UNCHANGED results
    /\ UNCHANGED <<event_id, last_event_id, sync_queue, d_frag, b_frag, B_frag,
                   capabilities, version, dev, stop_response>>
    /\ UNCHANGED <<linkVars, reader, peer, sent, replies, returns, dispatched,
                   emitted>>
    /\ UNCHANGED <<threads, gdbVars, simVars>>

\* self.communicator_stop_response.wait() returns: close and forget the device
DestroyJoined ==
    /\ caller.pc = "join"
    /\ stop_response
    /\ dev' = "absent"
    /\ Finish(caller, "return", "", <<>>, 0)
    /\ UNCHANGED <<event_id, last_event_id, sync_queue, d_frag, b_frag, B_frag,
                   capabilities, version, stop_request, stop_response>>
    /\ UNCHANGED <<linkVars, reader, peer, sent, replies, returns, dispatched,
                   emitted>>
    /\ UNCHANGED <<threads, gdbVars, simVars>>

---------------------------------------------------------------------------
\* The board.

\* version lists a board answers V with: the simulator's for versions 1 and 4,
\* one in ascending order, one starting with (0,2), one with nothing the
\* library supports, and an empty one
VersionLists ==
    { <<0, 1>>, <<0, 4, 0, 3, 0, 2, 0, 1>>, <<0, 1, 0, 2>>, <<0, 2, 0, 1>>,
      <<0, 9>>, <<>> }

\* capability strings a board answers ?? with: the simulator's, and a board
\* without MBus and GOC
SimCapabilities ==
    Str(<<"?", "_", "d", "I", "i", "f", "n", "O", "o", "B", "b", "M", "m", "e",
          "G", "g", "P", "p">>)
FewCapabilities == Str(<<"?", "_", "d", "I", "i">>)

\* the answers a board may give to a request: <<type, payload>>
\* (`naks`: whether it may answer NAK during the negotiation)
Answers(f, vlists, caps, naks) ==
    LET nak == IF naks THEN {<<1, <<>> >>} ELSE {}
    IN
    IF f.type = Chr("V")
    THEN {<<0, v>> : v \in vlists} \cup nak
    ELSE IF f.type = Chr("v")
    THEN {<<0, <<>> >>} \cup nak
    ELSE IF f.type = Chr("?")
    THEN {<<0, c>> : c \in caps} \cup nak
    ELSE IF f.type \in {Chr("d"), Chr("b"), Chr("f"), Chr("o")}
    THEN {<<0, <<>> >>, <<1, <<>> >>, <<1, <<3>> >>}
    ELSE {<<0, <<>> >>, <<0, <<7>> >>, <<1, <<>> >>, <<1, <<3>> >>}

\* the board reads the next request and answers it, echoing its event id.
\* It answers NAK at most MaxNaks times in all.
PeerReply(vlists, caps, naks) ==
    /\ dev = "open"
    /\ tx # <<>>
    /\ \E a \in Answers(Head(tx), vlists, caps, naks) :
        /\ a[1] = 1 => peer.naks < MaxNaks
        /\ rx' = rx \o FrameBytes(a[1], Head(tx).event_id, a[2])
        /\ replies' = Append(replies, a)
        /\ peer' = [peer EXCEPT !.naks = peer.naks + a[1]]
    /\ tx' = Tail(tx)
    /\ UNCHANGED <<iceVars, caller, reader, sent, returns, results, dispatched,
                   emitted>>
    /\ UNCHANGED <<threads, gdbVars, simVars>>

\* the board sends an ACK or a NAK nobody asked for
PeerUnsolicited ==
    /\ dev = "open"
    /\ peer.extra < MaxExtra
    /\ \E ty \in {0, 1}, eid \in 0..MaxPeerEid, m \in {<<9>>} :
        rx' = rx \o FrameBytes(ty, eid, m)
    /\ peer' = [peer EXCEPT !.extra = peer.extra + 1,
                            !.unsolicited = peer.unsolicited + 1]
    /\ UNCHANGED <<iceVars, tx, caller, reader, histVars>>
    /\ UNCHANGED <<threads, gdbVars, simVars>>

\* the board sends an asynchronous frame of one of the given types
PeerAsync(types, msgs) ==
    /\ dev = "open"
    /\ peer.extra < MaxExtra
    /\ \E ty \in types, eid \in 0..MaxPeerEid, m \in msgs :
        rx' = rx \o FrameBytes(ty, eid, m)
    /\ peer' = [peer EXCEPT !.extra = peer.extra + 1, !.async = peer.async + 1]
    /\ UNCHANGED <<iceVars, tx, caller, reader, histVars>>
    /\ UNCHANGED <<threads, gdbVars, simVars>>

\* The board sends a fragment on one of the streams d, b, B: a full one, a
\* short one or an empty one.  The event id and the content differ from
\* fragment to fragment.
PeerFragment ==
    /\ dev = "open"
    /\ peer.async < MaxAsync
    /\ \E ty \in {Chr("d"), Chr("b"), Chr("B")}, n \in {FRAG_SIZE, 1, 0} :
        rx' = rx \o FrameBytes(ty, 3 + 5 * peer.async,
                               [i \in 1..n |-> (i * 7 + peer.async) % 251])
    /\ peer' = [peer EXCEPT !.async = peer.async + 1]
    /\ UNCHANGED <<iceVars, tx, caller, reader, histVars>>
    /\ UNCHANGED <<threads, gdbVars, simVars>>

---------------------------------------------------------------------------
\* The session: connect, a plain request, destroy, against a version 0.4 board
\* that may also send frames of its own.

SimVersions4 == <<0, 4, 0, 3, 0, 2, 0, 1>>

CallerNext ==
    \/ Connect
    \/ SendMessageCall(TypeI, AsBytes(<<5, 6>>), None)
    \/ Destroy
    \/ DestroyJoined
    \/ ReplySend
    \/ ReplyUntilAcked

PeerNext ==
    \/ PeerReply({SimVersions4}, {SimCapabilities}, FALSE)
    \/ PeerUnsolicited
    \/ PeerAsync({Chr("d"), Chr("b")}, {<<8>>})

Next ==
    \/ CallerNext
    \/ ReaderNext
    \/ PeerNext

Spec == Init /\ [][Next]_vars

\* The session against a board that only answers requests, with both threads
\* of the library scheduled for as long as they can take a step.  Nothing is
\* assumed of the board: it may stay silent for ever.
ReaderQuiet ==
    \/ ReaderLoop
    \/ ReaderRead

NextLive ==
    \/ CallerNext
    \/ ReaderQuiet
    \/ PeerReply({<<0, 1>>, SimVersions4}, {SimCapabilities}, TRUE)

SpecLive ==
    Init /\ [][NextLive]_vars /\ WF_vars(ReaderQuiet) /\ WF_vars(CallerNext)

---------------------------------------------------------------------------
\* Requests with every kind of argument, against a board that only answers.

NextArgs ==
    \/ Connect
    \/ \E a \in SendArgs : SendMessageCall(a[1], a[2], a[3])
    \/ \E tries \in 0..MaxTries :
          SendUntilAckedCall(TypeI, AsBytes(<<5, 6>>), None, tries)
    \/ ReplySend
    \/ ReplyUntilAcked
    \/ ReaderLoop
    \/ ReaderRead
    \/ PeerReply({<<0, 1>>, SimVersions4}, {SimCapabilities}, TRUE)

SpecArgs == Init /\ [][NextArgs]_vars

---------------------------------------------------------------------------
\* Fragmented sends on a connected session, against a version 0.4 board.

\* message lengths at and just above the multiples of FRAG_SIZE
FragLens == {q * FRAG_SIZE + r : q \in 0..MaxFrags, r \in {0, 1}}

NextFrag ==
    \/ Connect
    \/ \E L \in FragLens :
          /\ L >= 4
          /\ dev = "open"
          /\ MbusSendCall(AsBytes(<<165>>), Pattern(L - 4))
    \/ /\ dev = "open"
       /\ MbusSendCall(AsBytes(<<1, 2, 3, 4>>), Pattern(FRAG_SIZE - 5))
    \/ \E L \in FragLens :
          /\ L >= 1
          /\ dev = "open"
          /\ I2cSendCall(152, Pattern(L - 1))
    \/ ReplyUntilAcked
    \/ ReplyFragment
    \/ ReaderLoop
    \/ ReaderRead
    \/ PeerReply({SimVersions4}, {SimCapabilities}, FALSE)

SpecFrag == Init /\ [][NextFrag]_vars

---------------------------------------------------------------------------
\* Guarded calls on sessions in every state of negotiation.

NextGate ==
    \/ Connect
    \/ MbusSendCall(AsBytes(<<165>>), <<1, 2>>)
    \/ MbusSendCall(AsBytes(<<1, 2, 3, 4, 5>>), <<1, 2>>)
    \/ I2cSendCall(152, <<1, 2>>)
    \/ ReplyUntilAcked
    \/ ReplyFragment
    \/ ReaderLoop
    \/ ReaderRead
    \/ PeerReply(VersionLists, {SimCapabilities, FewCapabilities}, TRUE)

SpecGate == Init /\ [][NextGate]_vars

---------------------------------------------------------------------------
\* Fragments arriving on the streams d, b and B, before, during and after the
\* negotiation with a version 0.1 or a version 0.4 board.

NextDefrag ==
    \/ Connect
    \/ ReplyUntilAcked
    \/ ReaderNext
    \/ PeerReply({<<0, 1>>, SimVersions4}, {SimCapabilities}, FALSE)
    \/ PeerFragment

SpecDefrag == Init /\ [][NextDefrag]_vars

---------------------------------------------------------------------------
\* Frames of types that no handler is registered for: 'G' is among the
\* capabilities of a version 0.4 board, 'Z' among nobody's.

\* frames of such types the board sends
MaxUnhandled == 2

UnhandledTypes == {Chr("G"), Chr("Z")}

PeerUnhandled ==
    /\ dev = "open"
    /\ peer.async < MaxUnhandled
    /\ \E ty \in UnhandledTypes, m \in {<<>>, <<8>>} :
        rx' = rx \o FrameBytes(ty, 3 + 5 * peer.async, m)
    /\ peer' = [peer EXCEPT !.async = peer.async + 1]
    /\ UNCHANGED <<iceVars, tx, caller, reader, histVars>>
    /\ UNCHANGED <<threads, gdbVars, simVars>>

NextUnhandled ==
    \/ Connect
    \/ ReplyUntilAcked
    \/ ReaderLoop
    \/ ReaderRead
    \/ ReaderTimeout
    \/ ReaderDrain
    \/ ReaderDrainTimeout
    \/ PeerReply({SimVersions4}, {SimCapabilities}, FALSE)
    \/ PeerUnhandled

SpecUnhandled == Init /\ [][NextUnhandled]_vars

---------------------------------------------------------------------------
\* Frames for the handlers that require a protocol version (b and B: 0.2,
\* e: 0.4), before the negotiation and on sessions negotiated at 0.1, 0.3 and
\* 0.4, with a request made afterwards.

PeerVersioned ==
    /\ dev = "open"
    /\ peer.async < MaxAsync
    /\ \E ty \in {Chr("b"), Chr("B"), Chr("e")}, m \in {<<>>, <<0, 1>>} :
        rx' = rx \o FrameBytes(ty, 3 + 5 * peer.async, m)
    /\ peer' = [peer EXCEPT !.async = peer.async + 1]
    /\ UNCHANGED <<iceVars, tx, caller, reader, histVars>>
    /\ UNCHANGED <<threads, gdbVars, simVars>>

NextVersions ==
    \/ Connect
    \/ SendMessageCall(TypeI, AsBytes(<<5, 6>>), None)
    \/ ReplySend
    \/ ReplyUntilAcked
    \/ ReaderLoop
    \/ ReaderRead
    \/ PeerReply({<<0, 1>>, <<0, 3>>, SimVersions4}, {SimCapabilities}, FALSE)
    \/ PeerVersioned

SpecVersions == Init /\ [][NextVersions]_vars

---------------------------------------------------------------------------
\* An ACK or a NAK that the board sends while the library awaits no reply:
\* no call is in progress and every request written has been answered.

\* the payload of such a frame, which no answer to a request carries
StalePayload == <<9>>

PeerStale ==
    /\ dev = "open"
    /\ caller.pc = "ready"
    /\ tx = <<>>
    /\ peer.unsolicited < MaxExtra
    /\ \E ty \in {0, 1} :
        rx' = rx \o FrameBytes(ty, MaxPeerEid + 1 + peer.unsolicited, StalePayload)
    /\ peer' = [peer EXCEPT !.unsolicited = peer.unsolicited + 1]
    /\ UNCHANGED <<iceVars, tx, caller, reader, histVars>>
    /\ UNCHANGED <<threads, gdbVars, simVars>>

NextStale ==
    \/ Connect
    \/ SendMessageCall(TypeI, AsBytes(<<5, 6>>), None)
    \/ ReplySend
    \/ ReplyUntilAcked
    \/ ReaderLoop
    \/ ReaderRead
    \/ ReaderPut
    \/ PeerReply({SimVersions4}, {SimCapabilities}, FALSE)
    \/ PeerStale

SpecStale == Init /\ [][NextStale]_vars

---------------------------------------------------------------------------
\* The baud rate of the serial line: ice_set_baudrate_to_*, ice_get_baudrate
\* and a board that keeps the divider as the simulator does.

\* calls made on one session
MaxBaudCalls == 2

\* ice_set_baudrate_to_115200, _to_2000000, _to_3_megabaud, _to_230400:
\* <<divider, baudrate>>
BaudSettings ==
    {<<174, 115200>>, <<10, 2000000>>, <<7, 3000000>>, <<174 \div 2, 230400>>}

\* the dividers the simulator accepts
BoardDividers == {174, 10, 7}

\* ice_set_baudrate(div, baudrate)
SetBaudrateCall(div, baudrate) ==
    /\ caller.pc = "ready"
    /\ caller.calls < MaxBaudCalls
    /\ dev = "open"
    /\ LET g == Guard(2, Chr("_"))
           c == [Begin("ice_set_baudrate") EXCEPT !.arg = <<div, baudrate>>,
                                                  !.tries0 = DEFAULT_TRIES]
       IN  IF g.exc # ""
           THEN /\ NoWrite
                /\ Finish(c, "raise", g.exc, g.val, 0)
           ELSE SendUntilAcked(c, "set_baud", AsText(<<Chr("_")>>),
                               AsBytes(PackBH(div)), None, DEFAULT_TRIES)
    /\ UNCHANGED <<last_event_id, sync_queue, d_frag, b_frag, B_frag, capabilities,
                   version, dev, stop_request, stop_response>>
    /\ UNCHANGED <<rx, reader, peer, replies, returns, dispatched, emitted>>
    /\ UNCHANGED <<threads, gdbVars, simVars>>

\* ice_get_baudrate()
GetBaudrateCall ==
    /\ caller.pc = "ready"
    /\ caller.calls < MaxBaudCalls
    /\ dev = "open"
    /\ LET g == Guard(2, Chr("?"))
           c == [Begin("ice_get_baudrate") EXCEPT !.tries0 = DEFAULT_TRIES]
       IN  IF g.exc # ""
           THEN /\ NoWrite
                /\ Finish(c, "raise", g.exc, g.val, 0)
           ELSE SendUntilAcked(c, "get_baud", AsText(<<Chr("?")>>),
                               AsBytes(<<Chr("b")>>), None, DEFAULT_TRIES)
    /\ UNCHANGED <<last_event_id, sync_queue, d_frag, b_frag, B_frag, capabilities,
                   version, dev, stop_request, stop_response>>
    /\ UNCHANGED <<rx, reader, peer, replies, returns, dispatched, emitted>>
    /\ UNCHANGED <<threads, gdbVars, simVars>>

\* What the board does with a request: [ans, div, up], ans the reply
\* <<type, payload>> or None when it dies without one.
BoardAnswer(f) ==
    LET keep(a) == [ans |-> Some(a), div |-> peer.baud_divider, up |-> TRUE]
        m == f.payload
    IN  IF f.type = Chr("V") THEN keep(<<0, SimVersions4>>)
        ELSE IF f.type = Chr("v") THEN keep(<<0, <<>> >>)
        ELSE IF f.type = Chr("?") /\ m # <<>> /\ m[1] = Chr("?")
        THEN keep(<<0, SimCapabilities>>)
        ELSE IF f.type = Chr("?") /\ m # <<>> /\ m[1] = Chr("b")
        THEN \* self.respond(struct.pack('>H', self.baud_divider))
             keep(<<0, <<peer.baud_divider \div 256, peer.baud_divider % 256>> >>)
        ELSE IF f.type = Chr("_") /\ Len(m) >= 3 /\ m[1] = Chr("b")
        THEN IF UnpackH(Tail(m)) \notin BoardDividers
             THEN \* raise Exception: main_loop ends
                  [ans |-> None, div |-> peer.baud_divider, up |-> FALSE]
             ELSE [ans |-> Some(<<0, <<>> >>), div |-> UnpackH(Tail(m)), up |-> TRUE]
        ELSE IF f.type = Chr("b") \/ (f.type = Chr("m") /\ Len(m) = 2 /\ m[1] = Chr("r"))
        THEN keep(<<0, <<>> >>)
        ELSE \* UnknownCommandException: self.nak()
             keep(<<1, <<>> >>)

\* the board reads the next request and serves it
PeerBoard ==
    /\ dev = "open"
    /\ tx # <<>>
    /\ peer.up
    /\ LET b == BoardAnswer(Head(tx))
       IN  /\ peer' = [peer EXCEPT !.baud_divider = b.div, !.up = b.up]
           /\ IF b.ans = None
              THEN UNCHANGED <<rx, replies>>
              ELSE /\ rx' = rx \o FrameBytes(b.ans[1][1], Head(tx).event_id,
                                              b.ans[1][2])
                   /\ replies' = Append(replies, b.ans[1])
    /\ tx' = Tail(tx)
    /\ UNCHANGED <<iceVars, caller, reader, sent, returns, results, dispatched,
                   emitted>>
    /\ UNCHANGED <<threads, gdbVars, simVars>>

NextBaud ==
    \/ Connect
    \/ \E a \in BaudSettings : SetBaudrateCall(a[1], a[2])
    \/ GetBaudrateCall
    \/ ReplyUntilAcked
    \/ ReaderLoop
    \/ ReaderRead
    \/ PeerBoard

SpecBaud == Init /\ [][NextBaud]_vars

---------------------------------------------------------------------------
\* send_message called from two threads of a connected session.  The
\* statements of send_message are steps of their own: nothing in it keeps a
\* second thread out between them.

\* send_message calls of one thread
MaxThreadSends == 2

\* what the threads send: mbus_set_internal_reset(True / False) of the
\* watchdog, fragments of an MBus message of the main thread
ThreadSends(t) ==
    IF t = "reset_mbus"
    THEN {<<Chr("m"), <<Chr("r"), 1>> >>, <<Chr("m"), <<Chr("r"), 0>> >>}
    ELSE {<<Chr("b"), <<0, 0, 0, 165, 1, 2>> >>}

\* buf = struct.pack("BBB", ord(msg_type), self.event_id, length)
ThreadPack(t, ty, msg) ==
    /\ caller.pc = "ready"
    /\ version.chosen
    /\ dev = "open"
    /\ threads[t].pc = "idle"
    /\ threads[t].calls < MaxThreadSends
    /\ threads' = [threads EXCEPT ![t] = [@ EXCEPT !.pc = "packed", !.ty = ty,
                                              !.msg = msg, !.buf_eid = event_id,
                                              !.calls = @ + 1]]
    /\ UNCHANGED <<iceVars, linkVars, caller, reader, peer, histVars>>
    /\ UNCHANGED <<gdbVars, simVars>>

\* self.event_id = (self.event_id + 1) % 256: the field is read ...
ThreadLoad(t) ==
    /\ threads[t].pc = "packed"
    /\ threads' = [threads EXCEPT ![t] = [@ EXCEPT !.pc = "loaded",
                                              !.loaded = event_id]]
    /\ UNCHANGED <<iceVars, linkVars, caller, reader, peer, histVars>>
    /\ UNCHANGED <<gdbVars, simVars>>

\* ... and the sum is stored
ThreadStore(t) ==
    /\ threads[t].pc = "loaded"
    /\ event_id' = NextEventId(threads[t].loaded)
    /\ threads' = [threads EXCEPT ![t] = [@ EXCEPT !.pc = "stored"]]
    /\ UNCHANGED <<last_event_id, sync_queue, d_frag, b_frag, B_frag, capabilities,
                   version, dev, stop_request, stop_response>>
    /\ UNCHANGED <<linkVars, caller, reader, peer, histVars>>
    /\ UNCHANGED <<gdbVars, simVars>>

\* self.dev.write(buf + msg): one call for the whole frame
ThreadWrite(t) ==
    /\ threads[t].pc = "stored"
    /\ LET f == Frame(threads[t].ty, threads[t].buf_eid, Len(threads[t].msg),
                      threads[t].msg)
       IN  /\ tx' = Append(tx, f)
           /\ sent' = Append(sent, Written(f, None))
    /\ threads' = [threads EXCEPT ![t] = [@ EXCEPT !.pc = "wait"]]
    /\ UNCHANGED <<iceVars, rx, caller, reader, peer, replies, returns, results,
                   dispatched, emitted>>
    /\ UNCHANGED <<gdbVars, simVars>>

\* return self.sync_queue.get(True, self.ONEYEAR)
ThreadGet(t) ==
    /\ threads[t].pc = "wait"
    /\ sync_queue # <<>>
    /\ sync_queue' = <<>>
    /\ returns' = Append(returns, sync_queue[1])
    /\ threads' = [threads EXCEPT ![t] = [@ EXCEPT !.pc = "idle",
                                              !.got = Append(@, sync_queue[1])]]
    /\ UNCHANGED <<event_id, last_event_id, d_frag, b_frag, B_frag, capabilities,
                   version, dev, stop_request, stop_response>>
    /\ UNCHANGED <<linkVars, caller, reader, peer, sent, replies, results,
                   dispatched, emitted>>
    /\ UNCHANGED <<gdbVars, simVars>>

NextThreads ==
    \/ Connect
    \/ ReplyUntilAcked
    \/ \E t \in Threads : \E a \in ThreadSends(t) : ThreadPack(t, a[1], a[2])
    \/ \E t \in Threads : ThreadLoad(t)
    \/ \E t \in Threads : ThreadStore(t)
    \/ \E t \in Threads : ThreadWrite(t)
    \/ \E t \in Threads : ThreadGet(t)
    \/ ReaderLoop
    \/ ReaderRead
    \/ ReaderPut
    \/ PeerBoard

SpecThreads == Init /\ [][NextThreads]_vars

---------------------------------------------------------------------------
\* The target chip and the MBus link to it.

\* ice.mbus_send(addr, data), seen from above: the message reaches the target
MbusSend(m) ==
    /\ mbus_out' = Append(mbus_out, m)
    /\ mbus_log' = Append(mbus_log, m)

\* a b++ event as the formatter hands it to the handler: (addr, data)
Event(addr_byte, data) == [addr |-> <<0, 0, 0, addr_byte>>, data |-> data]

\* the two notifications of a halt: the flag address, then the address of
\* the saved registers
HaltEvents ==
    <<Event(HALT_NOTIFY, Pack32(Word(FlagAddr))),
      Event(HALT_NOTIFY, Pack32(Word(RegBase)))>>

\* the target stops: it saves pc, clears the flag word and announces the halt
Halted(t) ==
    [t EXCEPT !.state = "halted", !.irq = FALSE,
              !.mem = [t.mem EXCEPT ![RegBase + RegOffsets("pc")] = Word(t.pc),
                                    ![FlagAddr] = Word(0)]]

\* the target takes the next MBus message addressed to it
TargetRecv ==
    /\ mbus_out # <<>>
    /\ LET m  == Head(mbus_out)
           fn == m.addr[4] % 16
       IN  /\ mbus_out' = Tail(mbus_out)
           /\ CASE fn = 3 ->
                    \* memory read: reply to the address asked for
                    LET a == IntOf(Unpack32(SubSeq(m.data, 5, 8)))
                        w == IF a \in WordAddrs THEN tgt.mem[a] ELSE Word(0)
                    IN  /\ bpp' = Append(bpp, Event(m.data[1],
                                          SubSeq(m.data, 9, 12) \o Pack32(w)))
                        /\ UNCHANGED tgt
                [] fn = 2 ->
                    \* memory write; a non-zero flag word resumes a halted chip
                    LET a == IntOf(Unpack32(SubSeq(m.data, 1, 4)))
                        w == Unpack32(SubSeq(m.data, 5, 8))
                        mem2 == IF a \in WordAddrs
                                THEN [tgt.mem EXCEPT ![a] = w] ELSE tgt.mem
                    IN  /\ tgt' = [tgt EXCEPT
                                 !.mem = mem2,
                                 !.state = IF tgt.state = "halted" /\ a = FlagAddr
                                              /\ w # Word(0)
                                           THEN "running" ELSE tgt.state]
                        /\ UNCHANGED bpp
                [] OTHER ->
                    \* register write: register 7 asks for a halt; a chip that
                    \* is halted already may or may not remember the request
                    /\ \E keep \in BOOLEAN :
                          tgt' = [tgt EXCEPT !.irq =
                                    IF m.data[1] # 7 THEN tgt.irq
                                    ELSE IF tgt.state = "running" THEN TRUE
                                    ELSE (keep \/ tgt.irq)]
                    /\ UNCHANGED bpp
    /\ UNCHANGED <<callback_queue, prcVars, displaced_insts, reqQ, respQ, ctrl, gdb,
                   mbus_log, conn_out, done, iceAll, simVars>>

\* the running target executes one instruction: a trap halts it
TargetExec ==
    /\ tgt.state = "running"
    /\ ~tgt.irq
    /\ IF <<ByteAt(tgt.mem, tgt.pc), ByteAt(tgt.mem, tgt.pc + 1), 0, 0>> = Word(SVC_01)
       THEN /\ tgt' = Halted(tgt)
            /\ bpp' = bpp \o HaltEvents
       ELSE /\ tgt' = [tgt EXCEPT !.pc = NextPc(tgt.pc)]
            /\ UNCHANGED bpp
    /\ UNCHANGED <<mbus_out, callback_queue, prcVars, displaced_insts, reqQ, respQ,
                   ctrl, gdb, mbus_log, conn_out, done, iceAll, simVars>>

\* the running target takes the halt request
TargetIrq ==
    /\ tgt.state = "running"
    /\ tgt.irq
    /\ tgt' = Halted(tgt)
    /\ bpp' = bpp \o HaltEvents
    /\ UNCHANGED <<mbus_out, callback_queue, prcVars, displaced_insts, reqQ, respQ,
                   ctrl, gdb, mbus_log, conn_out, done, iceAll, simVars>>

\* the target sends a message of its own to the ICE address
TargetChatter ==
    /\ tgt.chatter < MaxChatter
    /\ tgt' = [tgt EXCEPT !.chatter = @ + 1]
    /\ bpp' = Append(bpp, Event(MEMRD_REPLY + 1,
                                 <<0, 0, 0, 0, 0, 0, 0, tgt.chatter>>))
    /\ UNCHANGED <<mbus_out, callback_queue, prcVars, displaced_insts, reqQ, respQ,
                   ctrl, gdb, mbus_log, conn_out, done, iceAll, simVars>>

\* MBusInterface._callback, run by the reader thread for a b++ event
MBusCallback ==
    /\ bpp # <<>>
    /\ bpp' = Tail(bpp)
    /\ callback_queue' = Append(callback_queue, Head(bpp))
    /\ UNCHANGED <<tgt, mbus_out, prcVars, displaced_insts, reqQ, respQ, ctrl, gdb,
                   mbus_log, conn_out, done, iceAll, simVars>>

\* HaltMBusInterface._callback: 0xe0 messages go to the halt queue as well
HaltCallback ==
    /\ bpp # <<>>
    /\ bpp' = Tail(bpp)
    /\ callback_queue' = Append(callback_queue, Head(bpp))
    /\ halt_queue' = IF Unpack32(Head(bpp).addr) = Word(HALT_NOTIFY)
                     THEN Append(halt_queue, Head(bpp)) ELSE halt_queue
    /\ UNCHANGED <<tgt, mbus_out, prc, halt_thread, displaced_insts, reqQ, respQ,
                   ctrl, gdb, mbus_log, conn_out, done, iceAll, simVars>>

---------------------------------------------------------------------------
\* MBusInterface.read_mem and write_mem, Memory.__getitem__ and forceWrite.
\* The calling thread works through a plan of steps (ctrl.plan):
\*   [op |-> "rd", addr, size]        one read_mem(addr, size)
\*   [op |-> "wr", addr, size, val]   the write of write_mem(addr, val, size);
\*                                    for size < 32 the word read just before
\*                                    is the last of ctrl.vals
\*   [op |-> "raise", exc]            an exception nobody catches
\* The values read_mem returns collect in ctrl.vals.

Rd(addr, size) == [op |-> "rd", addr |-> addr, size |-> size, val |-> Word(0), exc |-> ""]
Wr(addr, size, val) == [op |-> "wr", addr |-> addr, size |-> size, val |-> val, exc |-> ""]
Raise(exc) == [op |-> "raise", addr |-> 0, size |-> 0, val |-> Word(0), exc |-> exc]

\* read_mem(addr, size) called directly
ReadMemPlan(addr, size) ==
    IF Align32(addr, size).exc # "" THEN <<Raise(Align32(addr, size).exc)>>
    ELSE <<Rd(addr, size)>>

\* write_mem(addr, value, size)
WriteMemPlan(addr, value, size) ==
    IF Align32(addr, size).exc # "" THEN <<Raise(Align32(addr, size).exc)>>
    ELSE IF size = 32 THEN <<Wr(addr, size, value)>>
    ELSE <<Rd(Align32(addr, size).align32, 32), Wr(addr, size, value)>>

\* Memory.__getitem__((addr, size)): an unaligned access is read byte by byte
MemGetPlan(addr, size) ==
    IF Align32(addr, size).exc = "" THEN <<Rd(addr, size)>>
    ELSE [i \in 1..(size \div 8) |-> Rd(addr + i - 1, 8)]

\* ... and its value, from the values the reads of the plan returned
RECURSIVE JoinBytes(_, _)
JoinBytes(vals, offset) ==
    IF vals = <<>> THEN Word(0)
    ELSE WOr(Shl(Head(vals), offset), JoinBytes(Tail(vals), offset + 1))

MemGetValue(addr, size, vals) ==
    IF Align32(addr, size).exc = "" THEN vals[Len(vals)]
    ELSE JoinBytes(vals, 0)

\* the memory of the target once it has taken the writes still on their way
RECURSIVE ApplyWrites(_, _)
ApplyWrites(mem, msgs) ==
    IF msgs = <<>> THEN mem
    ELSE LET m == Head(msgs)
             a == IntOf(Unpack32(SubSeq(m.data, 1, 4)))
         IN  ApplyWrites(IF m.addr[4] % 16 = 2 /\ a \in DOMAIN mem
                         THEN [mem EXCEPT ![a] = Unpack32(SubSeq(m.data, 5, 8))]
                         ELSE mem,
                         Tail(msgs))

MemSeen == ApplyWrites(tgt.mem, mbus_out)

\* the number of S05 replies, and of replies, put on the response queue so far
S05Count(q) == Cardinality({i \in DOMAIN q : q[i].kind = "S05"})
ReplyCount(q) == Cardinality({i \in DOMAIN q : q[i].kind \notin {"+", "GDB_QUIT"}})

\* the controller thread stops with an exception
Crashed(c, exc) ==
    [c EXCEPT !.pc = "crashed", !.exc = exc, !.plan = <<>>, !.wait = FALSE,
              !.lock = FALSE]

\* the record of a finished (or failed) command; halted and halted1 are
\* isHalted() before and after its last step
DoneEntry(c, ret, exc) ==
    [cmd |-> c.cmd, a |-> c.a, size |-> c.size, val |-> c.val, ret |-> ret,
     exc |-> exc, vals |-> c.vals, seen |-> c.seen, log0 |-> c.log0,
     log1 |-> Len(mbus_log), before |-> c.before, after |-> MemSeen,
     spc |-> c.spc, brk |-> c.brk, dt |-> c.dt, table0 |-> c.table0,
     table1 |-> displaced_insts, args |-> c.args, n |-> c.n,
     halted |-> (prc.flag_addr # None), halted1 |-> (prc.flag_addr # None),
     state |-> tgt.state, halts |-> halt_thread.count,
     out0 |-> c.out0, out1 |-> S05Count(conn_out \o respQ),
     rep0 |-> c.rep0, rep1 |-> ReplyCount(conn_out \o respQ)]

\* read_mem: form the request message and send it
CtrlRequest ==
    /\ ctrl.plan # <<>>
    /\ Head(ctrl.plan).op = "rd"
    /\ ~ctrl.wait
    /\ MbusSend(MemRdRequest(Align32(Head(ctrl.plan).addr, Head(ctrl.plan).size).align32))
    /\ ctrl' = [ctrl EXCEPT !.wait = TRUE]
    /\ UNCHANGED <<tgt, bpp, callback_queue, prcVars, displaced_insts, reqQ, respQ,
                   gdb, conn_out, done, iceAll, simVars>>

\* a read_mem that takes its value from whatever b++ event comes first
CtrlReplyAny ==
    /\ ctrl.wait
    /\ callback_queue # <<>>
    /\ callback_queue' = Tail(callback_queue)
    /\ LET e  == Head(callback_queue)
           op == Head(ctrl.plan)
           c1 == [ctrl EXCEPT !.seen = Append(@, e)]
       IN  IF Len(e.data) # 8 THEN ctrl' = Crashed(c1, "struct.error")
           ELSE ctrl' = [c1 EXCEPT
                    !.vals = Append(@, ReadMemValue(Unpack32(SubSeq(e.data, 5, 8)),
                                                    op.addr, op.size)),
                    !.plan = Tail(@),
                    !.wait = FALSE]
    /\ UNCHANGED <<tgt, mbus_out, bpp, prcVars, displaced_insts, reqQ, respQ, gdb,
                   mbus_log, conn_out, done, iceAll, simVars>>

\* read_mem: wait for a response; MBusInterface.read() hands over the next
\* b++ event, anything but the 0xe1 reply is logged and skipped
CtrlReply ==
    /\ ctrl.wait
    /\ callback_queue # <<>>
    /\ callback_queue' = Tail(callback_queue)
    /\ LET e  == Head(callback_queue)
           op == Head(ctrl.plan)
           c1 == [ctrl EXCEPT !.seen = Append(@, e)]
       IN  IF Unpack32(e.addr) # Word(MEMRD_REPLY) THEN ctrl' = c1
           ELSE IF Len(e.data) # 8 THEN ctrl' = Crashed(c1, "struct.error")
           ELSE IF Unpack32(SubSeq(e.data, 1, 4)) # Word(0)
                THEN ctrl' = Crashed(c1, "AssertionError")
           ELSE ctrl' = [c1 EXCEPT
                    !.vals = Append(@, ReadMemValue(Unpack32(SubSeq(e.data, 5, 8)),
                                                    op.addr, op.size)),
                    !.plan = Tail(@),
                    !.wait = FALSE]
    /\ UNCHANGED <<tgt, mbus_out, bpp, prcVars, displaced_insts, reqQ, respQ, gdb,
                   mbus_log, conn_out, done, iceAll, simVars>>

\* write_mem: merge the value into the word read and send the write
CtrlWrite ==
    /\ ctrl.plan # <<>>
    /\ Head(ctrl.plan).op = "wr"
    /\ LET op     == Head(ctrl.plan)
           orig32 == IF op.size = 32 THEN Word(0) ELSE ctrl.vals[Len(ctrl.vals)]
       IN  MbusSend(MemWrMessage(Align32(op.addr, op.size).align32,
                                 WriteMemWord(op.addr, op.val, op.size, orig32)))
    /\ ctrl' = [ctrl EXCEPT !.plan = Tail(@)]
    /\ UNCHANGED <<tgt, bpp, callback_queue, prcVars, displaced_insts, reqQ, respQ,
                   gdb, conn_out, done, iceAll, simVars>>

\* an exception leaves the command and, uncaught, ends the thread
CtrlRaise ==
    /\ ctrl.plan # <<>>
    /\ Head(ctrl.plan).op = "raise"
    /\ ctrl' = Crashed(ctrl, Head(ctrl.plan).exc)
    /\ done' = Append(done, DoneEntry(ctrl, None, Head(ctrl.plan).exc))
    /\ UNCHANGED <<tgt, mbusVars, prcVars, displaced_insts, reqQ, respQ, gdb,
                   mbus_log, conn_out, iceAll, simVars>>

\* a caller of MBusInterface calls read_mem(addr, size)
ReadMemCall(addr, size) ==
    /\ ctrl.pc = "idle"
    /\ gdb.calls < MaxApiCalls
    /\ gdb' = [gdb EXCEPT !.calls = @ + 1]
    /\ ctrl' = [IdleCtrl EXCEPT !.pc = "api", !.cmd = "read_mem", !.a = addr,
                                !.size = size, !.plan = ReadMemPlan(addr, size),
                                !.log0 = Len(mbus_log), !.before = tgt.mem]
    /\ UNCHANGED <<tgt, mbusVars, prcVars, displaced_insts, reqQ, respQ, mbus_log,
                   conn_out, done, iceAll, simVars>>

\* a caller of MBusInterface calls write_mem(addr, value, size)
WriteMemCall(addr, value, size) ==
    /\ ctrl.pc = "idle"
    /\ gdb.calls < MaxApiCalls
    /\ gdb' = [gdb EXCEPT !.calls = @ + 1]
    /\ ctrl' = [IdleCtrl EXCEPT !.pc = "api", !.cmd = "write_mem", !.a = addr,
                                !.size = size, !.val = value,
                                !.plan = WriteMemPlan(addr, value, size),
                                !.log0 = Len(mbus_log), !.before = tgt.mem]
    /\ UNCHANGED <<tgt, mbusVars, prcVars, displaced_insts, reqQ, respQ, mbus_log,
                   conn_out, done, iceAll, simVars>>

\* read_mem / write_mem returns
ApiReturn ==
    /\ ctrl.pc = "api"
    /\ ctrl.plan = <<>>
    /\ done' = Append(done, DoneEntry(ctrl,
                  IF ctrl.cmd = "read_mem" THEN Some(ctrl.vals[1]) ELSE None, ""))
    /\ ctrl' = IdleCtrl
    /\ UNCHANGED <<tgt, mbusVars, prcVars, displaced_insts, reqQ, respQ, gdb,
                   mbus_log, conn_out, iceAll, simVars>>

\* addresses, sizes and values a caller passes
ApiAddrs == {CodeBase + i : i \in 0..4}
ApiValue(size) == IF size = 8 THEN <<165, 0, 0, 0>>
                  ELSE IF size = 16 THEN <<165, 90, 0, 0>>
                  ELSE <<165, 90, 60, 195>>

NextMem ==
    \/ \E a \in ApiAddrs, size \in {8, 16, 32} : ReadMemCall(a, size)
    \/ \E a \in ApiAddrs, size \in {8, 16, 32} : WriteMemCall(a, ApiValue(size), size)
    \/ CtrlRequest \/ CtrlReply \/ CtrlWrite \/ CtrlRaise \/ ApiReturn
    \/ TargetRecv \/ TargetChatter \/ MBusCallback

SpecMem == Init /\ [][NextMem]_vars

---------------------------------------------------------------------------
\* GdbCtrl.PrcCtrl: the halt-monitoring thread, halt and resume.

\* an entry of the response queue: '+', 'GDB_QUIT', or a reply such as
\* 'S05', 'OK', '' or a string of hex digits (kind "hex", digits in data)
Reply(kind, data) == [kind |-> kind, data |-> data]

\* the callback fe.put handed to halt() and resume()
FePut == Some("fe.put")

\* a halt thread that serves one announcement only
HaltFirstOnce ==
    /\ halt_thread.pc = "first"
    /\ halt_thread.count = 0
    /\ halt_queue # <<>>
    /\ halt_queue' = Tail(halt_queue)
    /\ halt_thread' = [halt_thread EXCEPT
                          !.pc = "second",
                          !.flag_addr = IntOf(Unpack32(Head(halt_queue).data))]
    /\ UNCHANGED <<tgt, mbusVars, prc, displaced_insts, reqQ, respQ, ctrl, gdb,
                   mbus_log, conn_out, done, iceAll, simVars>>

\* _halt_thread, first message: the address of the flag
HaltFirst ==
    /\ halt_thread.pc = "first"
    /\ halt_queue # <<>>
    /\ halt_queue' = Tail(halt_queue)
    /\ halt_thread' = [halt_thread EXCEPT
                          !.pc = "second",
                          !.flag_addr = IntOf(Unpack32(Head(halt_queue).data))]
    /\ UNCHANGED <<tgt, mbusVars, prc, displaced_insts, reqQ, respQ, ctrl, gdb,
                   mbus_log, conn_out, done, iceAll, simVars>>

\* a halt thread that leaves the callback registered once it has called it
HaltSecondKeepsCallback ==
    /\ halt_thread.pc = "second"
    /\ halt_queue # <<>>
    /\ ~ctrl.lock
    /\ halt_queue' = Tail(halt_queue)
    /\ halt_thread' = [halt_thread EXCEPT !.pc = "first", !.count = @ + 1]
    /\ prc' = [flag_addr |-> Some(halt_thread.flag_addr),
               base_addr |-> Some(IntOf(Unpack32(Head(halt_queue).data))),
               local     |-> None,
               halt_cb   |-> prc.halt_cb]
    /\ respQ' = IF prc.halt_cb = FePut THEN Append(respQ, Reply("S05", <<>>))
                ELSE respQ
    /\ UNCHANGED <<tgt, mbusVars, displaced_insts, reqQ, ctrl, gdb, mbus_log,
                   conn_out, done, iceAll, simVars>>

\* a halt thread that does not wait for the lock
HaltSecondUnlocked ==
    /\ halt_thread.pc = "second"
    /\ halt_queue # <<>>
    /\ halt_queue' = Tail(halt_queue)
    /\ halt_thread' = [halt_thread EXCEPT !.pc = "first", !.count = @ + 1]
    /\ prc' = [flag_addr |-> Some(halt_thread.flag_addr),
               base_addr |-> Some(IntOf(Unpack32(Head(halt_queue).data))),
               local     |-> None,
               halt_cb   |-> None]
    /\ respQ' = IF prc.halt_cb = FePut THEN Append(respQ, Reply("S05", <<>>))
                ELSE respQ
    /\ UNCHANGED <<tgt, mbusVars, displaced_insts, reqQ, ctrl, gdb, mbus_log,
                   conn_out, done, iceAll, simVars>>

\* _halt_thread, second message: the address of the registers; then, with
\* the lock, update_base_addr, flag_addr and the callback
HaltSecond ==
    /\ halt_thread.pc = "second"
    /\ halt_queue # <<>>
    /\ ~ctrl.lock
    /\ halt_queue' = Tail(halt_queue)
    /\ halt_thread' = [halt_thread EXCEPT !.pc = "first", !.count = @ + 1]
    /\ prc' = [flag_addr |-> Some(halt_thread.flag_addr),
               base_addr |-> Some(IntOf(Unpack32(Head(halt_queue).data))),
               local     |-> None,
               halt_cb   |-> None]
    /\ respQ' = IF prc.halt_cb = FePut THEN Append(respQ, Reply("S05", <<>>))
                ELSE respQ
    /\ UNCHANGED <<tgt, mbusVars, displaced_insts, reqQ, ctrl, gdb, mbus_log,
                   conn_out, done, iceAll, simVars>>

\* PrcCtrl.isHalted
IsHalted == prc.flag_addr # None

---------------------------------------------------------------------------
\* GdbCtrl: the commands.  Between two plans of MBus accesses the
\* controller thread is at a label (ctrl.pc); StepEffect gives what it does
\* there: [ctrl, prc, table, put, send, fin, ret, exc].

NoEffect ==
    [ctrl |-> ctrl, prc |-> prc, table |-> displaced_insts, put |-> <<>>,
     send |-> <<>>, fin |-> FALSE, ret |-> None, exc |-> ""]

\* go on at label l
Goto(l) == [NoEffect EXCEPT !.ctrl.pc = l]

\* run a plan of MBus accesses, then go on at label l
Run(plan, l) ==
    [NoEffect EXCEPT !.ctrl.plan = plan, !.ctrl.vals = <<>>, !.ctrl.pc = l]

\* call cmd_Z / cmd_z (label sub) for address a, then go on at label l
Call(sub, a, l) ==
    [NoEffect EXCEPT !.ctrl.pc = sub, !.ctrl.a = a, !.ctrl.ret = <<l>> \o @]

\* the command returns r; the main loop puts it on the response queue
\* unless it is None
Return(r) ==
    [NoEffect EXCEPT !.put = IF r = None THEN <<>> ELSE <<r[1]>>,
                     !.fin = TRUE, !.ret = r]

\* the command raises exc
Throw(exc) == [NoEffect EXCEPT !.fin = TRUE, !.exc = exc]

\* PrcCtrl.halt(cb), then eff
PrcHalt(cb, eff) ==
    IF prc.flag_addr # None THEN Throw("AssertionError")
    ELSE [eff EXCEPT !.prc = [prc EXCEPT !.halt_cb = cb, !.flag_addr = None],
                     !.send = <<RegWrMessage(7, 1)>>]

\* a resume that does not register the callback
PrcResumeNoCallback(cb, eff) ==
    IF prc.flag_addr = None \/ prc.halt_cb # None THEN Throw("AssertionError")
    ELSE IF Align32(prc.flag_addr[1], 32).exc # ""
         THEN Throw(Align32(prc.flag_addr[1], 32).exc)
    ELSE [eff EXCEPT !.prc = [prc EXCEPT !.halt_cb = None, !.flag_addr = None],
                     !.send = <<MemWrMessage(Align32(prc.flag_addr[1], 32).align32,
                                             Word(1))>>]

\* PrcCtrl.resume(cb), then eff
PrcResume(cb, eff) ==
    IF prc.flag_addr = None \/ prc.halt_cb # None THEN Throw("AssertionError")
    ELSE IF Align32(prc.flag_addr[1], 32).exc # ""
         THEN Throw(Align32(prc.flag_addr[1], 32).exc)
    ELSE [eff EXCEPT !.prc = [prc EXCEPT !.halt_cb = cb, !.flag_addr = None],
                     !.send = <<MemWrMessage(Align32(prc.flag_addr[1], 32).align32,
                                             Word(1))>>]

\* GdbCtrl.regs: the registers by the numbers GDB gives them
GdbRegs ==
    <<"r0", "r1", "r2", "r3", "r4", "r5", "r6", "r7", "r8", "r9", "r10", "r11",
      "r12", "sp", "lr", "pc", "f0", "f1", "f2", "f3", "f4", "f5", "f6", "f7",
      "fps", "xpsr">>

\* int(binascii.hexlify(binascii.unhexlify(val)[::-1]), 16) for eight hex
\* digits: the bytes in the order given are the value's bytes, low byte first
HexWord(ds) ==
    <<16 * ds[1] + ds[2], 16 * ds[3] + ds[4], 16 * ds[5] + ds[6], 16 * ds[7] + ds[8]>>

\* the emulator (PyMulator.stepi, not part of the library) executes the
\* instruction at pc and leaves the next pc in the register cache
Stepi(pc) == NextPc(pc)

\* RegFile.getLocal('pc')
GetLocalPc == prc.local[1] + 4

Key(addr) == <<addr, 16>>

StepEffect ==
    LET c == ctrl
        t == displaced_insts
    IN
    CASE c.pc = "start" /\ c.cmd = "_question_" ->
            IF IsHalted THEN Return(Some(Reply("S05", <<>>)))
            ELSE PrcHalt(FePut, Return(None))
      [] c.pc = "start" /\ c.cmd = "_ctrlc_" ->
            PrcHalt(FePut, Return(None))
      [] c.pc = "start" /\ c.cmd = "c" ->
            IF ~IsHalted THEN Throw("AssertionError")
            ELSE PrcResume(FePut, Return(None))
      [] c.pc = "start" /\ c.cmd = "k" ->
            IF IsHalted THEN PrcResume(None, Return(None)) ELSE Return(None)
      [] c.pc = "start" /\ c.cmd \in {"Z", "z"} ->
            \* brType, addr, size = map(lambda x: int(x,16), args)
            IF c.args[1] # 0 \/ c.args[3] # 2 THEN Throw("AssertionError")
            ELSE Call(c.cmd, c.args[2], "reply_OK")
      [] c.pc = "start" /\ c.cmd = "m" ->
            IF ~IsHalted THEN Throw("AssertionError")
            ELSE [NoEffect EXCEPT !.ctrl.pc = "m_loop", !.ctrl.a = c.args[1],
                                  !.ctrl.size = c.args[2], !.ctrl.resp = <<>>]
      [] c.pc = "start" /\ c.cmd = "s" ->
            \* pc = this.rf['pc'] - 4, read under the lock
            IF ~IsHalted THEN Throw("AssertionError")
            ELSE [Run(ReadMemPlan(prc.base_addr[1] + RegOffsets("pc"), 32), "s_pc")
                    EXCEPT !.ctrl.lock = TRUE]
      [] c.pc = "start" /\ c.cmd = "q" ->
            \* subcmd.startswith(...)
            IF c.args[1] \in {"C", "fThreadInfo", "L", "Attached", "Offsets", "TStatus"}
            THEN Return(Some(Reply("", <<>>)))
            ELSE IF c.args[1] = "Supported"
            THEN Return(Some(Reply("PacketSize=4096", <<>>)))
            ELSE IF c.args[1] = "Symbol" THEN Return(Some(Reply("OK", <<>>)))
            ELSE Throw("UnsupportedException")
      [] c.pc = "start" /\ c.cmd = "X" -> Return(Some(Reply("", <<>>)))
      [] c.pc = "start" /\ c.cmd = "P" ->
            \* reg = this.regs[int(reg, 16)]; this.rf.forceWrite(reg, val),
            \* which writes base_addr + offsets[reg] under the lock
            IF ~IsHalted THEN Throw("AssertionError")
            ELSE IF ParseHex(c.args[1]) >= Len(GdbRegs) THEN Throw("IndexError")
            ELSE LET reg == GdbRegs[ParseHex(c.args[1]) + 1]
                 IN  IF reg \notin Range(RegNames) THEN Throw("AssertionError")
                     ELSE [Run(WriteMemPlan(prc.base_addr[1] + RegOffsets(reg),
                                            HexWord(c.args[2]), 32), "P_done")
                             EXCEPT !.ctrl.lock = TRUE]
      [] c.pc = "P_done" -> [Goto("reply_OK") EXCEPT !.ctrl.lock = FALSE]
      \* ---- cmd_Z
      [] c.pc = "Z" ->
            IF Key(c.a) \in DOMAIN t
            THEN [NoEffect EXCEPT !.ctrl.pc = Head(c.ret), !.ctrl.ret = Tail(c.ret)]
            ELSE Run(MemGetPlan(c.a, 16), "Z_read")
      [] c.pc = "Z_read" ->
            [Run(WriteMemPlan(c.a, Word(SVC_01), 16), Head(c.ret))
                EXCEPT !.ctrl.ret = Tail(c.ret),
                       !.table = DictSet(t, Key(c.a), MemGetValue(c.a, 16, c.vals))]
      \* ---- cmd_z
      [] c.pc = "z" ->
            IF Key(c.a) \notin DOMAIN t
            THEN [NoEffect EXCEPT !.ctrl.pc = Head(c.ret), !.ctrl.ret = Tail(c.ret)]
            ELSE Run(WriteMemPlan(c.a, t[Key(c.a)], 16), "z_del")
      [] c.pc = "z_del" ->
            [NoEffect EXCEPT !.ctrl.pc = Head(c.ret), !.ctrl.ret = Tail(c.ret),
                             !.table = DictDel(t, Key(c.a))]
      [] c.pc = "reply_OK" -> Return(Some(Reply("OK", <<>>)))
      \* ---- cmd_m
      [] c.pc = "m_loop" ->
            IF c.size <= 0 THEN Return(Some(Reply("hex", c.resp)))
            ELSE LET read_bytes == IF c.size > 4 THEN 4 ELSE c.size
                 IN  IF read_bytes \notin {4, 2, 1} THEN Throw("KeyError")
                     ELSE Run(MemGetPlan(c.a, read_bytes * 8), "m_read")
      [] c.pc = "m_read" ->
            LET read_bytes == IF c.size > 4 THEN 4 ELSE c.size
                val == MemGetValue(c.a, read_bytes * 8, c.vals)
            IN  [NoEffect EXCEPT
                    !.ctrl.pc = "m_loop",
                    !.ctrl.resp = @ \o EncodeHex(PackLE(read_bytes, val)),
                    !.ctrl.a = @ + read_bytes,
                    !.ctrl.size = @ - read_bytes]
      \* ---- cmd_s
      [] c.pc = "s_pc" ->
            \* RegFile.__getitem__ adds 4 to pc, cmd_s takes 4 off
            LET pc == (IntOf(c.vals[1]) + 4) - 4
            IN  IF Key(pc) \in DOMAIN t
                THEN [Call("z", ParseHex(HexStr(pc)), "s_stepi")
                        EXCEPT !.ctrl.lock = FALSE, !.ctrl.spc = pc, !.ctrl.dt = TRUE]
                ELSE [Goto("s_stepi")
                        EXCEPT !.ctrl.lock = FALSE, !.ctrl.spc = pc, !.ctrl.dt = FALSE]
      [] c.pc = "s_stepi" ->
            \* the emulator fetches the instruction at pc and executes it
            [Run(MemGetPlan(c.spc, 16), "s_Z")
                EXCEPT !.prc.local = Some(Stepi(c.spc))]
      [] c.pc = "s_Z" ->
            \* getLocal returns None once update_base_addr has emptied the
            \* cache: None - 4 raises TypeError
            IF prc.local = None THEN Throw("TypeError")
            ELSE LET break_addr == GetLocalPc - 4
                 IN  [Call("Z", ParseHex(HexStr(break_addr)), "s_resume")
                         EXCEPT !.ctrl.brk = break_addr]
      [] c.pc = "s_resume" -> PrcResume(None, Goto("s_wait"))
      [] c.pc = "s_wait" -> Call("z", ParseHex(HexStr(c.brk)), "s_fix")
      [] c.pc = "s_fix" ->
            IF c.dt THEN Call("Z", ParseHex(HexStr(c.spc)), "s_ret")
            ELSE Goto("s_ret")
      [] c.pc = "s_ret" -> Return(Some(Reply("S05", <<>>)))
      [] OTHER -> Throw("AttributeError")

\* the main loop of cmd_gdb takes the next command from the request queue
CtrlGet ==
    /\ ctrl.pc = "idle"
    /\ reqQ # <<>>
    /\ reqQ' = Tail(reqQ)
    /\ ctrl' = IF Head(reqQ).cmd = "_quit_" THEN [IdleCtrl EXCEPT !.pc = "quit"]
               ELSE [IdleCtrl EXCEPT
                        !.pc = "start",
                        !.cmd = Head(reqQ).cmd,
                        !.n = Head(reqQ).n,
                        !.args = IF Head(reqQ).cmd \in {"Z", "z", "m"}
                                 THEN [i \in DOMAIN Head(reqQ).fields |->
                                          ParseHex(Head(reqQ).fields[i])]
                                 ELSE Head(reqQ).fields,
                        !.log0 = Len(mbus_log),
                        !.before = MemSeen,
                        !.table0 = displaced_insts,
                        !.out0 = S05Count(conn_out \o respQ),
                        !.rep0 = ReplyCount(conn_out \o respQ)]
    /\ UNCHANGED <<tgt, mbusVars, prcVars, displaced_insts, respQ, gdb, mbus_log,
                   conn_out, done, iceAll, simVars>>

\* the controller thread runs the command up to its next MBus access, its
\* return or its exception
CtrlStep ==
    /\ ctrl.pc \notin {"idle", "quit", "crashed", "api"}
    /\ ctrl.plan = <<>>
    /\ ctrl.pc = "s_wait" => IsHalted
    /\ LET e == StepEffect
       IN  /\ prc' = e.prc
           /\ displaced_insts' = e.table
           /\ respQ' = respQ \o e.put
           /\ mbus_out' = mbus_out \o e.send
           /\ mbus_log' = mbus_log \o e.send
           /\ ctrl' = IF e.exc # "" THEN Crashed(ctrl, e.exc)
                      ELSE IF e.fin THEN IdleCtrl
                      ELSE e.ctrl
           /\ done' = IF e.fin
                      THEN Append(done,
                             [DoneEntry(ctrl, e.ret, e.exc) EXCEPT
                                 !.log1 = Len(mbus_log) + Len(e.send),
                                 !.table1 = e.table,
                                 !.after = ApplyWrites(tgt.mem, mbus_out \o e.send),
                                 !.out1 = S05Count(conn_out \o respQ \o e.put),
                                 !.rep1 = ReplyCount(conn_out \o respQ \o e.put),
                                 !.halted1 = (e.prc.flag_addr # None)])
                      ELSE done
    /\ UNCHANGED <<tgt, bpp, callback_queue, halt_queue, halt_thread, reqQ, gdb,
                   conn_out, iceAll, simVars>>

---------------------------------------------------------------------------
\* GdbRemote: the receive and transmit threads, and the GDB client.
\* A packet is its command letter and the fields of its sub-command, each
\* field a hexadecimal numeral: Z0,102,2 is
\* [type |-> "Z", fields |-> <<<<0>>, <<1, 0, 2>>, <<2>>>>].

Packet(type, nums) == [type |-> type, fields |-> [i \in DOMAIN nums |-> HexStr(nums[i])]]

\* an entry of the request queue; n is the number of the packet it came from
Request(cmd, fields, n) == [cmd |-> cmd, fields |-> fields, n |-> n]

\* _process_command: the requests it queues, the replies it puts itself
\* (_unsupported) and the exception it raises
ProcessCommand(pkt, n) ==
    IF pkt.type = "?"
    THEN [reqs |-> <<Request("_question_", <<>>, n)>>, resps |-> <<>>, exc |-> ""]
    ELSE IF pkt.type \in {"D", "c", "k", "g", "s"}
    THEN [reqs |-> <<Request(pkt.type, <<>>, n)>>, resps |-> <<>>, exc |-> ""]
    ELSE IF pkt.type \in {"M", "P", "X", "Z", "m", "p", "q", "v", "z"}
    THEN [reqs |-> <<Request(pkt.type, pkt.fields, n)>>, resps |-> <<>>, exc |-> ""]
    ELSE IF pkt.type \in {"H"}
    THEN [reqs |-> <<>>, resps |-> <<Reply("", <<>>)>>, exc |-> ""]
    ELSE [reqs |-> <<>>, resps |-> <<>>, exc |-> "UnsupportedException"]

\* _gdb_rx accepts the connection and starts the transmit thread
GdbAccept ==
    /\ gdb.rx = "none"
    /\ gdb' = [gdb EXCEPT !.rx = "serving", !.tx = "running"]
    /\ UNCHANGED <<tgt, mbusVars, prcVars, displaced_insts, reqQ, respQ, ctrl,
                   mbus_log, conn_out, done, iceAll, simVars>>

\* the client, not waiting for a reply (or left without one by a controller
\* that has stopped), sends a packet (of max at most); _gdb_recv
\* acknowledges it and _process_command queues it; an exception of
\* _process_command ends the receive thread.  gdb.rcvd lists the packets.
GdbRecv(pkt, max) ==
    /\ gdb.rx = "serving"
    /\ gdb.pending = "" \/ ctrl.pc = "crashed"
    /\ gdb.sent < max
    /\ respQ' = Append(respQ, Reply("+", <<>>)) \o ProcessCommand(pkt, gdb.sent + 1).resps
    /\ reqQ' = reqQ \o ProcessCommand(pkt, gdb.sent + 1).reqs
    /\ gdb' = [gdb EXCEPT !.sent = @ + 1,
                          !.rcvd = Append(@, pkt),
                          !.rx = IF ProcessCommand(pkt, gdb.sent + 1).exc # ""
                                 THEN "dead" ELSE @,
                          !.pending = IF pkt.type = "c" THEN "stop" ELSE "reply"]
    /\ UNCHANGED <<tgt, mbusVars, prcVars, displaced_insts, ctrl, mbus_log,
                   conn_out, done, iceAll, simVars>>

\* the client, waiting for the target to stop, sends the interrupt byte
GdbCtrlC ==
    /\ gdb.rx = "serving"
    /\ gdb.pending = "stop"
    /\ gdb.ctrlc < MaxCtrlC
    /\ reqQ' = Append(reqQ, Request("_ctrlc_", <<>>, 0))
    /\ gdb' = [gdb EXCEPT !.ctrlc = @ + 1]
    /\ UNCHANGED <<tgt, mbusVars, prcVars, displaced_insts, respQ, ctrl, mbus_log,
                   conn_out, done, iceAll, simVars>>

\* the client closes the connection: DisconnectException in _gdb_rx
GdbDisconnect ==
    /\ gdb.rx = "serving"
    /\ reqQ' = reqQ \o <<Request("k", <<>>, 0), Request("_quit_", <<>>, 0)>>
    /\ respQ' = Append(respQ, Reply("GDB_QUIT", <<>>))
    /\ gdb' = [gdb EXCEPT !.rx = "closed"]
    /\ UNCHANGED <<tgt, mbusVars, prcVars, displaced_insts, ctrl, mbus_log,
                   conn_out, done, iceAll, simVars>>

\* _gdb_tx takes the next entry of the response queue and sends it
GdbTx ==
    /\ gdb.tx = "running"
    /\ respQ # <<>>
    /\ respQ' = Tail(respQ)
    /\ IF Head(respQ).kind = "GDB_QUIT"
       THEN /\ gdb' = [gdb EXCEPT !.tx = "done"]
            /\ UNCHANGED conn_out
       ELSE /\ conn_out' = Append(conn_out, Head(respQ))
            /\ gdb' = [gdb EXCEPT !.pending =
                          IF Head(respQ).kind = "+" THEN @ ELSE ""]
    /\ UNCHANGED <<tgt, mbusVars, prcVars, displaced_insts, reqQ, ctrl, mbus_log,
                   done, iceAll, simVars>>

\* what the controller, the halt thread, the MBus and the target do
NextBackend ==
    \/ CtrlGet \/ CtrlStep \/ CtrlRequest \/ CtrlReply
    \/ TargetRecv \/ TargetExec \/ TargetIrq
    \/ HaltCallback \/ HaltFirst \/ HaltSecond

\* addresses of breakpoints
BreakAddrs == {CodeBase + i : i \in 0..3}

\* a session that sets and clears breakpoints
BreakPackets ==
    {Packet("?", <<>>)}
        \cup {Packet(t, <<0, a, 2>>) : t \in {"Z", "z"}, a \in BreakAddrs}

NextBreak ==
    \/ GdbAccept
    \/ \E pkt \in BreakPackets : GdbRecv(pkt, MaxPackets)
    \/ GdbTx
    \/ CtrlWrite \/ CtrlRaise
    \/ NextBackend

SpecBreak == Init /\ [][NextBreak]_vars

\* a session that reads memory
ReadAddrs == {CodeBase + i : i \in 0..3}
ReadLens == 1..6

ReadPackets ==
    {Packet("?", <<>>)} \cup {Packet("m", <<a, n>>) : a \in ReadAddrs, n \in ReadLens}

NextRead ==
    \/ GdbAccept
    \/ \E pkt \in ReadPackets : GdbRecv(pkt, MaxPackets)
    \/ GdbTx
    \/ NextBackend

SpecRead == Init /\ [][NextRead]_vars

\* a session that lets the target run: continue, interrupt, disconnect
RunPackets ==
    {Packet("?", <<>>), Packet("c", <<>>), Packet("Z", <<0, CodeBase + 2, 2>>)}

NextRun ==
    \/ GdbAccept
    \/ \E pkt \in RunPackets : GdbRecv(pkt, MaxPackets)
    \/ GdbCtrlC
    \/ GdbDisconnect
    \/ GdbTx
    \/ CtrlWrite
    \/ NextBackend

SpecRun == Init /\ [][NextRun]_vars

\* a session of halts and resumes
HaltPackets == {Packet("c", <<>>), Packet("Z", <<0, CodeBase + 2, 2>>)}

NextHalt ==
    \/ GdbAccept
    \/ \E pkt \in HaltPackets : GdbRecv(pkt, MaxPackets)
    \/ GdbCtrlC
    \/ GdbTx
    \/ CtrlWrite
    \/ NextBackend

\* the reader thread (which runs the callback) and the halt thread are
\* threads of their own that block on their queues: each takes its next
\* step whenever it can
SpecHaltLive ==
    /\ Init /\ [][NextHalt]_vars
    /\ WF_vars(HaltCallback) /\ WF_vars(HaltFirst) /\ WF_vars(HaltSecond)

\* a session of queries and of packets the server does not support
Query(name) == [type |-> "q", fields |-> <<name>>]

QueryPackets ==
    {Packet("H", <<>>), Packet("T", <<>>), Packet("X", <<>>),
     Query("C"), Query("Supported"), Query("Xfer")}

NextQuery ==
    \/ GdbAccept
    \/ \E pkt \in QueryPackets : GdbRecv(pkt, MaxStepPackets)
    \/ GdbTx
    \/ CtrlGet \/ CtrlStep

SpecQuery == Init /\ [][NextQuery]_vars

\* a session of breakpoints in the program and single steps
StepAddrs == {CodeBase, CodeBase + 2}

StepPackets ==
    {Packet("?", <<>>), Packet("s", <<>>)}
        \cup {Packet("Z", <<0, a, 2>>) : a \in StepAddrs}

NextStep ==
    \/ GdbAccept
    \/ \E pkt \in StepPackets : GdbRecv(pkt, MaxStepPackets)
    \/ GdbTx
    \/ CtrlWrite
    \/ NextBackend

SpecStep == Init /\ [][NextStep]_vars

---------------------------------------------------------------------------
\* Register accesses while halt announcements arrive.  _callback hands every
\* message to address 0xe0 to the halt thread, whoever sent it and whenever:
\* here a pair of them arrives unasked, naming another register area.

MaxRegPackets == 2

\* s reads pc; P f=04010000 writes pc
RegPackets ==
    {Packet("s", <<>>),
     [type |-> "P", fields |-> <<HexStr(15), <<0, 4, 0, 1, 0, 0, 0, 0>> >>]}

\* two messages to 0xe0 that no halt request caused arrive while the debugger
\* holds the target halted, and the reader thread runs _callback for both
BusAnnounce ==
    /\ tgt.chatter < MaxChatter
    /\ IsHalted
    /\ bpp = <<>>
    /\ tgt' = [tgt EXCEPT !.chatter = @ + 1]
    /\ LET pair == <<Event(HALT_NOTIFY, Pack32(Word(FlagAddr))),
                     Event(HALT_NOTIFY, Pack32(Word(RegBase + 256)))>>
       IN  /\ callback_queue' = callback_queue \o pair
           /\ halt_queue' = halt_queue \o pair
    /\ UNCHANGED <<mbus_out, bpp, prc, halt_thread, displaced_insts, reqQ, respQ,
                   ctrl, gdb, mbus_log, conn_out, done, iceAll, simVars>>

NextRegs ==
    \/ GdbAccept
    \* GDB opens the session with ?
    \/ gdb.sent = 0 /\ GdbRecv(Packet("?", <<>>), MaxRegPackets)
    \/ gdb.sent > 0 /\ \E pkt \in RegPackets : GdbRecv(pkt, MaxRegPackets)
    \/ GdbTx
    \/ CtrlWrite
    \/ NextBackend
    \/ BusAnnounce

SpecRegs == Init /\ [][NextRegs]_vars

---------------------------------------------------------------------------
\* Halts and resumes with their callbacks, and announcements nobody asked for.

\* halt() and resume() read nothing from the target
CallbackPackets == {Packet("?", <<>>), Packet("c", <<>>)}

NextCallbacks ==
    \/ GdbAccept
    \/ \E pkt \in CallbackPackets : GdbRecv(pkt, MaxPackets)
    \/ GdbCtrlC
    \/ GdbTx
    \/ CtrlGet \/ CtrlStep
    \/ TargetRecv \/ TargetExec \/ TargetIrq
    \/ HaltCallback \/ HaltFirst \/ HaltSecond
    \/ BusAnnounce

SpecCallbacks == Init /\ [][NextCallbacks]_vars

---------------------------------------------------------------------------
\* The simulator of the board (m3/ice_simulator.py): the main loop, the
\* thread that generates snooped messages and the thread that replays a
\* trace.  Every write to the port is made inside `with self.s_lock`, so the
\* frames of the three threads do not interleave; self.event is read and
\* written by all three.

CAPABILITES == Str(<<"?", "_", "d", "I", "i", "f", "n", "O", "o", "B", "b", "M", "m",
                     "e", "G", "g", "P", "p">>)
DEFAULT_I2C_MASK == <<"1", "0", "0", "1", "1", "0", "0", "x">>
DEFAULT_MBUS_PREFIX == <<255, 255, 240>>
ICE_VERSION == 4

\* __init__: the mask of the bits of `mask` that are the character c
RECURSIVE MaskOf(_, _)
MaskOf(mask, c) ==
    IF mask = <<>> THEN 0
    ELSE 2 * MaskOf(SubSeq(mask, 1, Len(mask) - 1), c)
         + (IF mask[Len(mask)] = c THEN 1 ELSE 0)

\* match_mask without --ack-all
match_mask(val, ones, zeros) ==
    BitAnd(val, ones) = ones /\ BitAnd(BYTE - 1 - val, zeros) = zeros

Rep(b, n) == [i \in 1..n |-> b]

\* the (addr, data, control) triples of spurious_message_thread
SnoopArgs ==
    << <<<<0, 0, 0, 116>>, <<222, 173, 190, 239>>, <<1>>>>,
       <<<<0, 0, 0, 64>>, <<171>>, <<1>>>>,
       <<<<240, 1, 35, 69>>, <<1, 35, 69, 103, 137, 171, 205, 239>>, <<3>>>>,
       <<<<0, 0, 0, 34>>, Rep(165, 160), <<1>>>>,
       <<<<0, 0, 0, 51>>, Rep(201, 160), <<1>>>>,
       <<<<0, 0, 0, 68>>, Rep(239, 160), <<1>>>> >>

\* the lines of the trace file of --replay: (addr, data), addr of one byte
\* (two hex digits) or four
ReplayFile == << <<<<116>>, <<222, 173, 190, 239>>>> >>

\* Simulator.__init__ with the arguments generate_messages and replay: the
\* two threads are started here
SimulatorInit(generate_messages, with_replay) ==
    /\ sim.pc = "none"
    /\ sim' = [NoSim EXCEPT
                 !.pc = "made",
                 !.args = [generate_messages |-> generate_messages,
                           replay |-> with_replay],
                 !.i2c_mask_ones = MaskOf(DEFAULT_I2C_MASK, "1"),
                 !.i2c_mask_zeros = MaskOf(DEFAULT_I2C_MASK, "0"),
                 !.mbus_full_prefix_ones = DEFAULT_MBUS_PREFIX,
                 !.mbus_full_prefix_zeros = DEFAULT_MBUS_PREFIX,
                 !.mbus_short_prefix = 15,
                 !.mbus_broadcast_mask_ones = 15,
                 !.mbus_broadcast_mask_zeros = 15,
                 !.mbus_snoop_broadcast_mask_ones = 15,
                 !.mbus_snoop_broadcast_mask_zeros = 15]
    /\ gen' = [gen EXCEPT !.pc = IF generate_messages THEN "sleep" ELSE "none"]
    /\ replay' = [replay EXCEPT !.pc = IF with_replay THEN "wait" ELSE "none"]
    /\ UNCHANGED <<s_in, s_out, reads>>
    /\ UNCHANGED <<iceAll, gdbVars>>

\* run(): main_loop starts
SimulatorRun ==
    /\ sim.pc = "made"
    /\ sim' = [sim EXCEPT !.pc = "read", !.i2c_msg = <<>>, !.i2c_match = TRUE,
                          !.mbus_msg = <<>>]
    /\ UNCHANGED <<gen, replay, s_in, s_out, reads>>
    /\ UNCHANGED <<iceAll, gdbVars>>

\* a request frame on the port
SimFrame(ty, eid, msg) == [type |-> ty, event_id |-> eid, payload |-> msg]

\* the host writes a request; its event ids count up from SimFirstEid
ClientSend(ty, msg) ==
    /\ sim.pc = "read"
    /\ s_in = <<>>
    /\ sim.sent < MaxSimReqs
    /\ s_in' = <<SimFrame(ty, (SimFirstEid + sim.sent) % BYTE, msg)>>
    /\ sim' = [sim EXCEPT !.sent = sim.sent + 1]
    /\ UNCHANGED <<gen, replay, s_out, reads>>
    /\ UNCHANGED <<iceAll, gdbVars>>

\* main_loop: a frame is read and `self.event = event_id`
SimRead ==
    /\ sim.pc = "read"
    /\ s_in # <<>>
    /\ sim' = [sim EXCEPT !.pc = "handle", !.req = Some(Head(s_in)),
                          !.event = Head(s_in).event_id]
    /\ s_in' = Tail(s_in)
    /\ reads' = Append(reads, [req |-> Head(s_in), at |-> Len(s_out),
                               minor |-> sim.minor])
    /\ UNCHANGED <<gen, replay, s_out>>
    /\ UNCHANGED <<iceAll, gdbVars>>

\* what a handler of main_loop ends with
Respond(s, msg)  == [sim |-> s, reply |-> Some(<<0, msg>>), exc |-> ""]
RespondNak(s, msg) == [sim |-> s, reply |-> Some(<<1, msg>>), exc |-> ""]
Ack(s)           == Respond(s, <<>>)
Silent(s)        == [sim |-> s, reply |-> None, exc |-> ""]
Raises(s, e)     == [sim |-> s, reply |-> None, exc |-> e]

\* min_proto(proto): "" when the negotiated minor suffices
min_proto(s, proto) ==
    IF s.minor = None THEN "NameError"
    ELSE IF s.minor[1] < proto THEN "UnknownCommandException"
    ELSE ""

\* struct.pack("B", x) of a flag or a byte
PackB(x) == <<x>>
Bool(x) == IF x # 0 THEN 1 ELSE 0

HandleV(s, msg) ==
    IF ICE_VERSION \in {1, 2} THEN Respond(s, <<0, 1>>)
    ELSE IF ICE_VERSION = 3 THEN Respond(s, <<0, 3, 0, 2, 0, 1>>)
    ELSE IF ICE_VERSION = 4 THEN Respond(s, <<0, 4, 0, 3, 0, 2, 0, 1>>)
    ELSE Raises(s, "ValueError")

Handle_v(s, msg) ==
    IF msg \in {<<0, 4>>, <<0, 3>>, <<0, 2>>}
    THEN Ack([s EXCEPT !.minor = Some(msg[2]), !.CLOCK_FREQ = Some(4)])
    ELSE IF msg = <<0, 1>>
    THEN Ack([s EXCEPT !.minor = Some(1), !.CLOCK_FREQ = Some(2)])
    ELSE \* CLOCK_FREQ = 4e6 is assigned before the comparison
         Raises([s EXCEPT !.CLOCK_FREQ = Some(4)], "Exception")

HandleQuery(s, msg) ==
    IF min_proto(s, 2) # "" THEN Raises(s, min_proto(s, 2))
    ELSE IF msg = <<>> THEN Raises(s, "IndexError")
    ELSE IF msg[1] = Chr("?") THEN Respond(s, CAPABILITES)
    ELSE IF msg[1] = Chr("b") THEN Respond(s, <<0, 174>>)
    ELSE Raises(s, "UnknownCommandException")

Handle_b(s, msg) ==
    IF min_proto(s, 2) # "" THEN Raises(s, min_proto(s, 2))
    ELSE IF Len(msg) # MAX_MSG
    THEN Ack([s EXCEPT !.mbus_msg = <<>>,
                       !.mbus_should_interrupt =
                           IF s.mbus_should_interrupt = 1 THEN 0
                           ELSE s.mbus_should_interrupt,
                       !.mbus_should_prio =
                           IF s.mbus_should_prio = 1 THEN 0 ELSE s.mbus_should_prio])
    ELSE Ack([s EXCEPT !.mbus_msg = s.mbus_msg \o msg])

Handle_d(s, msg) ==
    LET s1 == [s EXCEPT !.i2c_msg = s.i2c_msg \o msg]
    IN  IF ~s.i2c_match /\ msg = <<>> THEN Raises(s1, "IndexError")
        ELSE IF ~s.i2c_match /\ ~match_mask(msg[1], s.i2c_mask_ones, s.i2c_mask_zeros)
        THEN \* respond(struct.pack('B', 0), ack=False); continue
             RespondNak(s1, <<0>>)
        ELSE IF Len(msg) # MAX_MSG
        THEN Ack([s1 EXCEPT !.i2c_msg = <<>>, !.i2c_match = FALSE])
        ELSE Ack([s1 EXCEPT !.i2c_match = TRUE])

HandleM(s, msg) ==
    IF min_proto(s, 2) # "" THEN Raises(s, min_proto(s, 2))
    ELSE IF msg = <<>> THEN Raises(s, "IndexError")
    ELSE CASE msg[1] = Chr("l") ->
                Respond(s, s.mbus_full_prefix_ones \o s.mbus_full_prefix_zeros)
           [] msg[1] = Chr("s") -> Respond(s, PackB(s.mbus_short_prefix))
           [] msg[1] = Chr("S") -> Respond(s, PackB(s.mbus_snoop_enabled))
           [] msg[1] = Chr("b") ->
                Respond(s, <<s.mbus_broadcast_mask_ones, s.mbus_broadcast_mask_zeros>>)
           [] msg[1] = Chr("B") ->
                Respond(s, <<s.mbus_snoop_broadcast_mask_ones,
                             s.mbus_snoop_broadcast_mask_zeros>>)
           [] msg[1] = Chr("m") -> Respond(s, PackB(s.mbus_ismaster))
           [] msg[1] = Chr("c") -> Raises(s, "NotImplementedError")
           [] msg[1] = Chr("i") -> Respond(s, PackB(s.mbus_should_interrupt))
           [] msg[1] = Chr("p") -> Respond(s, PackB(s.mbus_should_prio))
           [] msg[1] = Chr("r") -> Respond(s, PackB(s.mbus_force_reset))
           [] OTHER -> \* logger.error("bad 'M' subtype"): nothing is written
                Silent(s)

\* the handlers of 'm' that store msg[1] (and msg[2])
Handle_m(s, msg) ==
    IF min_proto(s, 2) # "" THEN Raises(s, min_proto(s, 2))
    ELSE IF msg = <<>> THEN Raises(s, "IndexError")
    ELSE CASE msg[1] = Chr("l") ->
                IF Len(msg) < 7 THEN Raises(s, "IndexError")
                ELSE Ack([s EXCEPT !.mbus_full_prefix_ones = SubSeq(msg, 2, 4),
                                   !.mbus_full_prefix_zeros = SubSeq(msg, 5, 7)])
           [] msg[1] = Chr("c") -> Raises(s, "NotImplementedError")
           [] msg[1] \in {Chr("s"), Chr("S"), Chr("m"), Chr("i"), Chr("p"), Chr("r")} ->
                IF Len(msg) < 2 THEN Raises(s, "IndexError")
                ELSE CASE msg[1] = Chr("s") -> Ack([s EXCEPT !.mbus_short_prefix = msg[2]])
                       [] msg[1] = Chr("S") ->
                            Ack([s EXCEPT !.mbus_snoop_enabled = msg[2],
                                          !.s_en_event = s.s_en_event \/ msg[2] # 0])
                       [] msg[1] = Chr("m") -> Ack([s EXCEPT !.mbus_ismaster = Bool(msg[2])])
                       [] msg[1] = Chr("i") ->
                            Ack([s EXCEPT !.mbus_should_interrupt = msg[2]])
                       [] msg[1] = Chr("p") -> Ack([s EXCEPT !.mbus_should_prio = msg[2]])
                       [] msg[1] = Chr("r") -> Ack([s EXCEPT !.mbus_force_reset = msg[2]])
           [] msg[1] \in {Chr("b"), Chr("B")} ->
                IF Len(msg) < 3 THEN Raises(s, "IndexError")
                ELSE IF msg[1] = Chr("b")
                THEN Ack([s EXCEPT !.mbus_broadcast_mask_ones = msg[2],
                                   !.mbus_broadcast_mask_zeros = msg[3]])
                ELSE Ack([s EXCEPT !.mbus_snoop_broadcast_mask_ones = msg[2],
                                   !.mbus_snoop_broadcast_mask_zeros = msg[3]])
           [] OTHER -> \* logger.error("bad 'm' subtype"): nothing is written
                Silent(s)

\* int(CLOCK_FREQ / self.flow_clock_in_hz) as three bytes: 6400000 at 4 MHz
\* and 3200000 at 2 MHz for the default clock of .625 Hz; after 'oc' the
\* divisor that was set (the rounding of the float division is left out)
FlowDiv(s) ==
    IF s.flow_div # None THEN s.flow_div[1]
    ELSE IF s.CLOCK_FREQ = Some(4) THEN <<97, 168, 0>> ELSE <<48, 212, 0>>

HandleO(s, msg) ==
    IF msg = <<>> THEN Raises(s, "IndexError")
    ELSE IF msg[1] = Chr("c")
    THEN IF s.minor = None THEN Raises(s, "NameError")
         ELSE IF s.minor[1] >= 3 THEN Respond(s, <<0>> \o FlowDiv(s))
         ELSE Respond(s, FlowDiv(s))
    ELSE IF msg[1] = Chr("o")
    THEN IF s.minor = None THEN Raises(s, "NameError")
         ELSE IF s.minor[1] > 1 THEN Respond(s, PackB(s.flow_onoff))
         ELSE \* logger.error(...): nothing is written
              Silent(s)
    ELSE \* logger.error("bad 'O' subtype"): nothing is written
         Silent(s)

Handle_o(s, msg) ==
    IF msg = <<>> THEN Raises(s, "IndexError")
    ELSE IF msg[1] = Chr("c")
    THEN IF s.minor = None THEN Raises(s, "NameError")
         ELSE IF Len(msg) < (IF s.minor[1] >= 3 THEN 5 ELSE 4) THEN Raises(s, "IndexError")
         ELSE LET div == IF s.minor[1] >= 3 THEN SubSeq(msg, 3, 5) ELSE SubSeq(msg, 2, 4)
              IN  IF (IF s.minor[1] >= 3 THEN SubSeq(msg, 2, 5) ELSE SubSeq(msg, 2, 4))
                       \in {<<0, 0, 0>>, <<0, 0, 0, 0>>}
                  THEN Raises(s, "ZeroDivisionError")
                  ELSE Ack([s EXCEPT !.flow_div = Some(div)])
    ELSE IF msg[1] = Chr("o")
    THEN IF min_proto(s, 2) # "" THEN Raises(s, min_proto(s, 2))
         ELSE IF Len(msg) < 2 THEN Raises(s, "IndexError")
         ELSE Ack([s EXCEPT !.flow_onoff = Bool(msg[2])])
    ELSE IF msg[1] = Chr("p")
    THEN IF min_proto(s, 2) # "" THEN Raises(s, min_proto(s, 2))
         ELSE IF Len(msg) < 2 THEN Raises(s, "IndexError")
         ELSE Ack([s EXCEPT !.ein_goc_toggle = Some(Bool(msg[2]))])
    ELSE \* assert False
         Raises(s, "AssertionError")

\* the types main_loop has a branch for
SimTypes ==
    {Chr(c) : c \in {"V", "v", "?", "_", "b", "d", "e", "f", "n", "G", "g", "I", "i",
                     "M", "m", "O", "o", "P", "p"}}

\* The body of the try of main_loop for one request.  The handlers of the
\* types _, e, f, n, G, g, I, i, P and p are not modelled: no request of
\* these types is sent.
Handle(s, f) ==
    LET msg == f.payload
    IN  CASE f.type = Chr("V") -> HandleV(s, msg)
          [] f.type = Chr("v") -> Handle_v(s, msg)
          [] f.type = Chr("?") -> HandleQuery(s, msg)
          [] f.type = Chr("b") -> Handle_b(s, msg)
          [] f.type = Chr("d") -> Handle_d(s, msg)
          [] f.type = Chr("M") -> HandleM(s, msg)
          [] f.type = Chr("m") -> Handle_m(s, msg)
          [] f.type = Chr("O") -> HandleO(s, msg)
          [] f.type = Chr("o") -> Handle_o(s, msg)
          [] f.type \notin SimTypes -> Raises(s, "UnknownCommandException")

\* main_loop: the request is handled up to the call of respond, if any
\* (except UnknownCommandException: self.nak(); NameError is raised again and
\* every other exception leaves the loop as well)
SimHandle ==
    /\ sim.pc = "handle"
    /\ LET r == Handle(sim, sim.req[1])
       IN  sim' = IF r.exc = "UnknownCommandException"
                  THEN [r.sim EXCEPT !.pc = "respond", !.pending = Some(<<1, <<>>>>)]
                  ELSE IF r.exc # ""
                  THEN [r.sim EXCEPT !.pc = "dead", !.req = None]
                  ELSE IF r.reply # None
                  THEN [r.sim EXCEPT !.pc = "respond", !.pending = r.reply]
                  ELSE [r.sim EXCEPT !.pc = "read", !.req = None]
    /\ UNCHANGED <<gen, replay, s_in, s_out, reads>>
    /\ UNCHANGED <<iceAll, gdbVars>>

\* respond(msg, ack), inside the lock: the frame carries self.event, which
\* is then advanced
SimRespond ==
    /\ sim.pc = "respond"
    /\ s_out' = Append(s_out, SimFrame(sim.pending[1][1], sim.event, sim.pending[1][2]))
    /\ sim' = [sim EXCEPT !.pc = "read", !.req = None, !.pending = None,
                          !.event = (sim.event + 1) % BYTE]
    /\ UNCHANGED <<gen, replay, s_in, reads>>
    /\ UNCHANGED <<iceAll, gdbVars>>

\* send_snoop of both threads, inside the lock
SendSnoop(addr, data, control) ==
    /\ s_out' = Append(s_out, SimFrame(Chr("B"), sim.event, addr \o data \o control))
    /\ sim' = [sim EXCEPT !.event = (sim.event + 1) % BYTE]

NextArgsIndex(k) == IF k = Len(SnoopArgs) THEN 1 ELSE k + 1

\* spurious_message_thread: the sleep is over; `if not
\* self.mbus_snoop_enabled: continue`
GenWake ==
    /\ gen.pc = "sleep"
    /\ gen.n < MaxSnoops
    /\ gen' = IF sim.mbus_snoop_enabled = 0
              THEN [gen EXCEPT !.k = NextArgsIndex(gen.k)]
              ELSE [gen EXCEPT !.pc = "send"]
    /\ UNCHANGED <<sim, replay, s_in, s_out, reads>>
    /\ UNCHANGED <<iceAll, gdbVars>>

\* spurious_message_thread: send_snoop(*args)
GenSend ==
    /\ gen.pc = "send"
    /\ SendSnoop(SnoopArgs[gen.k][1], SnoopArgs[gen.k][2], SnoopArgs[gen.k][3])
    /\ gen' = [pc |-> "sleep", k |-> NextArgsIndex(gen.k), n |-> gen.n + 1]
    /\ UNCHANGED <<replay, s_in, reads>>
    /\ UNCHANGED <<iceAll, gdbVars>>

\* replay_message_thread: self.s_en_event.wait() returns
ReplayBegin ==
    /\ replay.pc = "wait"
    /\ sim.s_en_event
    /\ replay' = [replay EXCEPT !.pc = "line"]
    /\ UNCHANGED <<sim, gen, s_in, s_out, reads>>
    /\ UNCHANGED <<iceAll, gdbVars>>

\* replay_message_thread: the next line of the file is read and checked
ReplayLine ==
    /\ replay.pc = "line"
    /\ replay' =
         IF replay.i > Len(ReplayFile) THEN [replay EXCEPT !.pc = "done"]
         ELSE IF sim.mbus_snoop_enabled = 0 \/ Len(ReplayFile[replay.i][1]) \notin {1, 4}
         THEN \* assert
              [replay EXCEPT !.pc = "dead"]
         ELSE [replay EXCEPT !.pc = "send"]
    /\ UNCHANGED <<sim, gen, s_in, s_out, reads>>
    /\ UNCHANGED <<iceAll, gdbVars>>

\* replay_message_thread: send_snoop(addr, data, '02')
ReplaySend ==
    /\ replay.pc = "send"
    /\ LET line == ReplayFile[replay.i]
           addr == IF Len(line[1]) = 1 THEN <<0, 0, 0>> \o line[1] ELSE line[1]
       IN  SendSnoop(addr, line[2], <<2>>)
    /\ replay' = [pc |-> "line", i |-> replay.i + 1]
    /\ UNCHANGED <<gen, s_in, reads>>
    /\ UNCHANGED <<iceAll, gdbVars>>

\* the requests of a session with the simulator: the negotiation, the
\* capability query, MBus and I2C messages, MBus and GOC settings with known
\* and unknown subtypes, and a type the simulator does not know
SimRequests ==
    { <<Chr("V"), <<>>>>, <<Chr("v"), <<0, 4>>>>, <<Chr("v"), <<0, 1>>>>,
      <<Chr("?"), <<Chr("?")>>>>,
      <<Chr("b"), <<165, 1>>>>,
      <<Chr("d"), <<152, 1>>>>, <<Chr("d"), <<16, 1>>>>,
      <<Chr("M"), <<Chr("S")>>>>, <<Chr("M"), <<Chr("x")>>>>,
      <<Chr("m"), <<Chr("S"), 1>>>>,
      <<Chr("O"), <<Chr("o")>>>>, <<Chr("O"), <<Chr("c")>>>>,
      <<Chr("o"), <<Chr("o"), 0>>>>, <<Chr("o"), <<Chr("x")>>>>,
      <<Chr("Z"), <<>>>> }

NextSim ==
    \/ \E g, r \in BOOLEAN : SimulatorInit(g, r)
    \/ SimulatorRun
    \/ \E q \in SimRequests : ClientSend(q[1], q[2])
    \/ SimRead
    \/ SimHandle
    \/ SimRespond
    \/ GenWake
    \/ GenSend
    \/ ReplayBegin
    \/ ReplayLine
    \/ ReplaySend

SpecSim == Init /\ [][NextSim]_vars

---------------------------------------------------------------------------
\* Properties of the request/reply exchange.

\* the k-th value returned by send_message is the board's answer to the k-th
\* request written
RepliesInOrder ==
    /\ Len(returns) <= Len(replies)
    /\ \A k \in 1..Len(returns) : returns[k] = replies[k]

\* no request is written while an earlier one's reply has not been returned
OneInFlight == Len(sent) <= Len(returns) + 1

\* the reader has never thrown a byte away after a frame without handler
NoDrain == \A i \in DOMAIN dispatched : ~dispatched[i].eat

\* C1 (as stated): with a single caller and a board that sends exactly one ACK
\* or NAK per request and no other type-0/1 frame, the k-th send_message
\* returns the reply to the k-th request, and at most one request is in flight.
C1_RepliesInOrder ==
    peer.unsolicited = 0 => (RepliesInOrder /\ OneInFlight)

\* The pairing holds as long as no asynchronous frame has made the reader
\* throw a byte away (a frame of a type, or synthetic type, without handler
\* and outside the capability string).
RepliesInOrderNoDrain ==
    (peer.unsolicited = 0 /\ NoDrain) => (RepliesInOrder /\ OneInFlight)

\* a session with four requests answered in order while the board also sent
\* an asynchronous frame that entered a fragment buffer
C1_Witness ==
    /\ peer.unsolicited = 0
    /\ NoDrain
    /\ Len(returns) >= 4
    /\ RepliesInOrder
    /\ \E i \in DOMAIN dispatched : dispatched[i].gate = "in"

---------------------------------------------------------------------------
\* Properties of send_message_until_acked.

AllNak(got) == \A i \in DOMAIN got : got[i][1] = 1

\* a finished send_message_until_acked(tries = n) call of the user
UntilAckedOk(r) ==
    /\ r.nsent <= r.tries
    /\ r.nsent = Len(r.got)
    /\ r.kind = "return" =>
          /\ r.got # <<>>
          /\ r.got[Len(r.got)][1] = 0
          /\ r.val = r.got[Len(r.got)][2]
          /\ AllNak(SubSeq(r.got, 1, Len(r.got) - 1))
    /\ r.kind = "raise" => r.exc = "NAK_Error"
    /\ (r.kind = "raise") <=> (r.nsent = r.tries /\ AllNak(r.got))

\* C2: send_message_until_acked with tries = n writes at most n frames; when
\* an attempt is ACKed it returns that ACK's payload and writes no further
\* frame; it raises NAK_Error exactly when all n attempts were NAKed.
C2_UntilAcked ==
    /\ \A i \in DOMAIN results :
          results[i].op = "send_message_until_acked" => UntilAckedOk(results[i])
    /\ caller.op = "send_message_until_acked" =>
          /\ caller.nsent <= caller.tries0
          /\ AllNak(caller.got)
          /\ Len(caller.got) \in {caller.nsent - 1, caller.nsent}

\* a call with tries = 2 that was NAKed once and then ACKed
C2_Witness ==
    \E i \in DOMAIN results :
        /\ results[i].op = "send_message_until_acked"
        /\ results[i].kind = "return"
        /\ results[i].tries = 2
        /\ results[i].nsent = 2

\* a call with tries = 2 that ran out of tries
UntilAckedExhausted ==
    \E i \in DOMAIN results :
        /\ results[i].op = "send_message_until_acked"
        /\ results[i].kind = "raise"
        /\ results[i].nsent = 2

---------------------------------------------------------------------------
\* Properties of the frames written.

RECURSIVE FramesOf(_)
\* the number of frames the finished calls wrote
FramesOf(rs) == IF rs = <<>> THEN 0 ELSE Head(rs).nsent + FramesOf(Tail(rs))

\* every frame written was written by a call, and a call that ended with
\* FormatError wrote none
RejectedWriteNothing ==
    /\ Len(sent) = FramesOf(results) + caller.nsent
    /\ \A i \in DOMAIN results :
          results[i].exc = "FormatError" /\ results[i].op = "send_message"
             => results[i].nsent = 0

LengthIsPayload(f) == f.length = Len(f.payload) /\ f.length <= 255

---------------------------------------------------------------------------
\* Properties of the reader.

\* the reader has just cut a frame from the line
Dispatching == Len(dispatched') = Len(dispatched) + 1

\* C7 (as stated): a frame whose event_id equals that of the previously
\* accepted frame is dropped: it is not placed in the reply slot, no handler
\* is invoked for it and no fragment buffer changes.
C7_DuplicateDropped ==
    [][(Dispatching /\ dispatched'[Len(dispatched')].dup) =>
          /\ UNCHANGED <<sync_queue, d_frag, b_frag, B_frag, emitted>>
          /\ reader'.pc # "put"
          /\ dispatched'[Len(dispatched')].gate \notin {"in", "raised", "dropped"}
      ]_vars

\* a frame with the event id of the frame before it went to the reply slot or
\* into a fragment buffer
C7_Witness ==
    \E i \in DOMAIN dispatched :
        /\ dispatched[i].dup
        /\ dispatched[i].gate \in {"sync", "in"}

\* C8 (as stated): an ACK or NAK that arrives while the reply slot is full is
\* discarded: the slot keeps its item and the reader goes on without blocking.
C8_FullSlotDiscards ==
    [][(Dispatching /\ dispatched'[Len(dispatched')].gate = "sync"
                    /\ sync_queue # <<>>) =>
          /\ sync_queue' = sync_queue
          /\ reader'.pc = "top"
      ]_vars

\* the frame a blocked reader holds is never put in the slot later
C8_NeverPutLater == [][~ReaderPut]_vars

\* the reader blocked in put() with an ACK or NAK in hand
C8_Witness == reader.pc = "put" /\ sync_queue # <<>>

---------------------------------------------------------------------------
\* Properties of fragmented sends.

AllAck(got) == \A i \in DOMAIN got : got[i][1] = 0

\* the frames the i-th finished call wrote
FramesOfCall(i) ==
    SubSeq(sent, FramesOf(SubSeq(results, 1, i - 1)) + 1,
                 FramesOf(SubSeq(results, 1, i)))

RECURSIVE Payloads(_)
Payloads(fs) == IF fs = <<>> THEN <<>> ELSE Head(fs).payload \o Payloads(Tail(fs))

\* the message a fragmented send is given: for mbus_send the address padded
\* with zero bytes in front to four bytes, then the data; for i2c_send the
\* address byte, then the data
MessageOf(r) ==
    IF r.op = "mbus_send"
    THEN LET a == ToBytes(r.arg[1])
         IN  [k \in 1..(4 - Len(a)) |-> 0] \o a \o r.arg[2]
    ELSE <<r.arg[1]>> \o r.arg[2]

FragmentsOk(i) ==
    LET r  == results[i]
        fs == FramesOfCall(i)
        m  == MessageOf(r)
        L  == Len(m)
        q  == L \div 255
    IN  /\ r.kind = "return"
        /\ r.num = L
        /\ Len(fs) = q + 1
        /\ \A k \in 1..q : fs[k].length = 255 /\ Len(fs[k].payload) = 255
        /\ fs[q + 1].length = L % 255
        /\ Len(fs[q + 1].payload) = L % 255
        /\ Payloads(fs) = m
        /\ \A k \in 1..(q + 1) :
              fs[k].type = (IF r.op = "mbus_send" THEN Chr("b") ELSE Chr("d"))

\* C3: when every fragment is ACKed, a fragmented send of a message of L bytes
\* writes floor(L/255) frames of length 255 and then exactly one final frame of
\* length L mod 255 (zero-length when L is a multiple of 255); the payloads in
\* order make up the message, and the call returns L (for mbus_send L counts
\* the address padded to 4 bytes).
C3_Fragments ==
    \A i \in DOMAIN results :
        (/\ results[i].op \in {"mbus_send", "i2c_send"}
         /\ results[i].got # <<>>
         /\ AllAck(results[i].got)) => FragmentsOk(i)

\* an mbus_send of 510 bytes in all, every fragment ACKed: two full frames and
\* a zero-length one
C3_Witness ==
    \E i \in DOMAIN results :
        /\ results[i].op = "mbus_send"
        /\ AllAck(results[i].got)
        /\ results[i].nsent = 3
        /\ results[i].num = 2 * FRAG_SIZE
        /\ sent[Len(sent)].length = 0

---------------------------------------------------------------------------
\* Properties of the negotiation and of the guards.

\* the version pairs of a V reply
PairsOf(resp) == {<<resp[2 * k - 1], resp[2 * k]>> : k \in 1..(Len(resp) \div 2)}

\* v is above w
Above(v, w) == v[1] > w[1] \/ (v[1] = w[1] /\ v[2] > w[2])

\* the payload of the ACK to the V request: the first ACK returned
VersionReply ==
    LET acks == {k \in DOMAIN returns : returns[k][1] = 0}
    IN  returns[CHOOSE k \in acks : \A j \in acks : k <= j][2]

\* C4 (as stated): after negotiate_version succeeds, (major, minor) is the
\* highest version that is both in the board's V reply and in the library's
\* supported set, whatever the order of the reply.
C4_HighestCommon ==
    (\E i \in DOMAIN results :
        results[i].op = "connect" /\ results[i].kind = "return") =>
       LET common == PairsOf(VersionReply) \cap VERSIONS
           v      == <<version.major, version.minor>>
       IN  /\ version.chosen
           /\ v \in common
           /\ \A w \in common : ~Above(w, v)

\* The session's version is the first pair of the reply that the library
\* supports: the highest one when the board lists its versions from the
\* highest down, as the simulator does.
FirstCommon ==
    (\E i \in DOMAIN results :
        results[i].op = "connect" /\ results[i].kind = "return") =>
       LET resp   == VersionReply
           common == PairsOf(resp) \cap VERSIONS
           first  == CHOOSE k \in 1..(Len(resp) \div 2) :
                        /\ <<resp[2 * k - 1], resp[2 * k]>> \in common
                        /\ \A j \in 1..(k - 1) :
                              <<resp[2 * j - 1], resp[2 * j]>> \notin common
       IN  /\ version.chosen
           /\ <<version.major, version.minor>> = <<resp[2 * first - 1], resp[2 * first]>>

\* a negotiation that succeeded on a reply listing (0,1) before (0,2)
C4_Witness ==
    /\ \E i \in DOMAIN results :
          results[i].op = "connect" /\ results[i].kind = "return"
    /\ VersionReply = <<0, 1, 0, 2>>
    /\ version.minor = 1

\* the minor version and the capability letter a guarded call requires
Required(op) ==
    IF op = "mbus_send" THEN [minor |-> 2, cap |-> Chr("b")]
    ELSE [minor |-> 1, cap |-> Chr("d")]

\* what the stated order of the checks yields in the current state:
\* "" when the call is let through
Rejection(op) ==
    LET q == Required(op)
    IN  IF ~version.chosen
        THEN [exc |-> "NotConnectedError", val |-> <<>>]
        ELSE IF version.minor < q.minor
        THEN [exc |-> "VersionError", val |-> <<q.minor, Some(version.minor)>>]
        ELSE IF q.cap \notin Range(capabilities)
        THEN [exc |-> "CapabilityError", val |-> <<q.cap, capabilities>>]
        ELSE [exc |-> "", val |-> <<>>]

\* a guarded call has just ended at its guards or right behind them
Guarded ==
    /\ caller.pc = "ready"
    /\ Len(results') = Len(results) + 1
    /\ results'[Len(results')].op \in {"mbus_send", "i2c_send"}

GuardErrors == {"NotConnectedError", "VersionError", "CapabilityError"}

\* C5 (as stated): a guarded call is checked in this order: no negotiated
\* version yet -> NotConnected; negotiated minor below the required one ->
\* VersionError(required, current); capability letter missing ->
\* CapabilityError(required, have).  A rejected call writes no frame and
\* leaves event_id alone; mbus_send at minor 1 raises VersionError(2, 1).
C5_GuardOrder ==
    [][Guarded =>
         LET r == results'[Len(results')]
             e == Rejection(r.op)
         IN  /\ e.exc # "" => (r.exc = e.exc /\ r.val = e.val)
             /\ r.exc \in GuardErrors => (r.exc = e.exc /\ r.val = e.val)
             /\ r.exc \in GuardErrors => UNCHANGED <<event_id, tx, sent>>
      ]_vars

\* The stated order holds except on a session whose negotiation found no
\* common version (self.minor is None there).
GuardOrderUnlessFailed ==
    [][(Guarded /\ (version.attr => version.chosen)) =>
         LET r == results'[Len(results')]
             e == Rejection(r.op)
         IN  /\ e.exc # "" => (r.exc = e.exc /\ r.val = e.val)
             /\ r.exc \in GuardErrors => (r.exc = e.exc /\ r.val = e.val)
      ]_vars

\* a rejected call never writes a frame or moves event_id, whatever the
\* exception
RejectedTouchNothing ==
    [][(Guarded /\ results'[Len(results')].exc \in GuardErrors)
          => UNCHANGED <<event_id, tx, sent>>]_vars

\* mbus_send on a session negotiated at minor 1 was rejected with
\* VersionError(2, 1)
C5_Witness ==
    \E i \in DOMAIN results :
        /\ results[i].op = "mbus_send"
        /\ results[i].exc = "VersionError"
        /\ results[i].val = <<2, <<1>> >>
        /\ results[i].nsent = 0

\* a guarded call made after a negotiation that found no common version
GuardAfterFailedNegotiation ==
    \E i \in DOMAIN results :
        /\ results[i].op \in {"mbus_send", "i2c_send"}
        /\ results[i].exc = "VersionError"
        /\ results[i].val[2] = None

---------------------------------------------------------------------------
\* Properties of the defraggers.

RECURSIVE Assemble(_, _, _, _)
\* The messages a stream's fragments make up, and what is left over: every
\* fragment is appended to the buffer, and a fragment of a length other than
\* 255 closes the message, which carries that fragment's event id.
Assemble(frames, syn, buf, out) ==
    IF frames = <<>> THEN [buf |-> buf, out |-> out]
    ELSE LET f == Head(frames)
             m == buf \o f.msg
         IN  IF f.length # 255
             THEN Assemble(Tail(frames), syn, <<>>,
                           Append(out, [type |-> syn, event_id |-> f.event_id,
                                        length |-> Len(m), msg |-> m]))
             ELSE Assemble(Tail(frames), syn, m, out)

\* the stream's emissions and buffer are those its fragments `frames` make up
StreamOk(frames, syn, frag) ==
    LET a == Assemble(frames, syn, <<>>, <<>>)
    IN  /\ SelectSeq(emitted, LAMBDA e : e.type = syn) = a.out
        /\ frag = a.buf

\* the fragments of a stream the reader has cut from the line
Arrived(ty) == SelectSeq(dispatched, LAMBDA e : e.type = ty)

\* ... and those that arrived on a session negotiated at minor 2 or above
ArrivedNegotiated(ty) ==
    SelectSeq(dispatched,
              LAMBDA e : e.type = ty /\ e.ver.chosen /\ e.ver.minor >= 2)

\* C9 (as stated): on each stream d, b, B a run of length-255 fragments and a
\* closing fragment of another length cause exactly one emission of d+, b+,
\* B+ carrying the fragments in order and the closing fragment's event id;
\* nothing is emitted before, other streams do not enter, and the buffer is
\* empty afterwards.
C9_Defragment ==
    /\ StreamOk(Arrived(Chr("d")), "d+", d_frag)
    /\ StreamOk(Arrived(Chr("b")), "b+", b_frag)
    /\ StreamOk(Arrived(Chr("B")), "B+", B_frag)

\* C9 (amended): the same for d on any session, and for b and B for the
\* fragments that arrive once a version with minor 2 or above has been
\* negotiated; a b or B fragment that arrives earlier or at minor 1 enters no
\* buffer and causes no emission.
C9_DefragmentNegotiated ==
    /\ StreamOk(Arrived(Chr("d")), "d+", d_frag)
    /\ StreamOk(ArrivedNegotiated(Chr("b")), "b+", b_frag)
    /\ StreamOk(ArrivedNegotiated(Chr("B")), "B+", B_frag)

\* a b+ message made of a full fragment and a short one, carrying the event
\* id of the short one
C9_Witness ==
    /\ \E i \in DOMAIN emitted :
          /\ emitted[i].type = "b+"
          /\ emitted[i].length = FRAG_SIZE + 1
          /\ \E k \in DOMAIN dispatched :
                /\ dispatched[k].type = Chr("b")
                /\ dispatched[k].length = 1
                /\ dispatched[k].event_id = emitted[i].event_id
    /\ b_frag = <<>>

\* a full fragment waits in the buffer of one stream while another stream
\* emits a message
OtherStreamWaiting ==
    /\ d_frag # <<>>
    /\ \E i \in DOMAIN emitted : emitted[i].type \in {"b+", "B+"}

---------------------------------------------------------------------------
\* Properties of destroy.

\* connect() has returned
Connected ==
    \E i \in DOMAIN results : results[i].op = "connect" /\ results[i].kind = "return"

\* C10 (as stated): after destroy() is called on a connected session the
\* reader sees the stop request and ends, and destroy() closes the device and
\* returns, even if the board never sends another byte.
C10_DestroyReturns ==
    (caller.op = "destroy" /\ caller.pc = "join" /\ Connected)
        ~> (caller.pc = "ready" /\ dev = "absent" /\ reader.pc = "stopped")

\* destroy() waits for the reader while the reader waits in useful_read(3)
\* for the three bytes of a header on a silent line
C10_Witness ==
    /\ Connected
    /\ caller.op = "destroy"
    /\ caller.pc = "join"
    /\ stop_request
    /\ reader.pc = "header"
    /\ rx = <<>>

\* destroy() does return when the reader comes by the test of its loop
DestroyCanReturn ==
    \E i \in DOMAIN results :
        /\ results[i].op = "destroy"
        /\ dev = "absent"
        /\ reader.pc = "stopped"


---------------------------------------------------------------------------
\* Properties of MBusInterface.read_mem and write_mem.

IsReply(e) == Unpack32(e.addr) = Word(MEMRD_REPLY)

\* the finished calls of read_mem / write_mem that returned
Returned(name) == {i \in DOMAIN done : done[i].cmd = name /\ done[i].exc = ""}

\* the word of the 0xe1 reply a finished read_mem took its value from
ReplyWord(d) == Unpack32(SubSeq(d.seen[Len(d.seen)].data, 5, 8))

\* C11: read_mem(addr, size) writes exactly one message, a memory-read
\* request, and returns the value taken from the first b++ event with
\* address 0xe1 dequeued after the request; the b++ events with other
\* addresses dequeued before it are skipped, and the call waits no longer
\* once it has dequeued the 0xe1 reply.
C11_ReadMemCorrelation ==
    /\ \A i \in Returned("read_mem") :
          LET d == done[i]
              n == Len(d.seen)
          IN  /\ d.log1 = d.log0 + 1
              /\ mbus_log[d.log1].addr = Pack32(Word(PRC_ADDR * 16 + 3))
              /\ n >= 1
              /\ IsReply(d.seen[n])
              /\ \A k \in 1..(n - 1) : ~IsReply(d.seen[k])
              /\ d.ret = Some(ReadMemValue(ReplyWord(d), d.a, d.size))
    /\ ctrl.wait => \A k \in DOMAIN ctrl.seen : ~IsReply(ctrl.seen[k])

\* a read_mem that skipped an event of another address and returned the
\* word of the reply behind it
C11_Witness ==
    \E i \in Returned("read_mem") :
        /\ Len(done[i].seen) = 2
        /\ ~IsReply(done[i].seen[1])
        /\ done[i].size = 32
        /\ done[i].ret = Some(InitMem[done[i].a])

\* the size/8 bytes of word w from byte offset k on, as a number:
\* (w >> 8*k) & (2 ** size - 1)
Field(w, k, size) == WAnd(Shr(w, k), Mask(size))

\* the access lies inside one 32-bit word
InsideWord(addr, size) == (addr % 4) + (size \div 8) <= 4

\* C12: for size 8 or 16 and an addr whose bytes lie inside one 32-bit
\* word, read_mem(addr, size) returns (w >> 8*(addr & 3)) & (2**size - 1),
\* w being the word the target returned for addr & ~3.
C12_ReadMemSubword ==
    \A i \in Returned("read_mem") :
        LET d == done[i]
        IN  (d.size \in {8, 16} /\ InsideWord(d.a, d.size))
                => d.ret = Some(Field(ReplyWord(d), d.a % 4, d.size))

\* the same for the accesses whose offset is a multiple of their size
ReadMemSubwordAligned ==
    \A i \in Returned("read_mem") :
        LET d == done[i]
        IN  (d.size \in {8, 16} /\ (d.a % 4) % (d.size \div 8) = 0)
                => d.ret = Some(Field(ReplyWord(d), d.a % 4, d.size))

\* a 16-bit read_mem at byte offset 1 of a word has returned
C12_Witness ==
    \E i \in Returned("read_mem") : done[i].size = 16 /\ done[i].a % 4 = 1

\* the word a finished write_mem wrote, and the word it read before
WrittenWord(d) == Unpack32(SubSeq(mbus_log[d.log1].data, 5, 8))
ReadBefore(d) == d.vals[Len(d.vals)]

\* word w holds the size/8 low bytes of v from byte offset k on and the
\* bytes of orig elsewhere
Merged(w, k, size, v, orig) ==
    \A j \in 0..3 :
        w[j + 1] = IF k <= j /\ j < k + (size \div 8) THEN v[j - k + 1]
                   ELSE orig[j + 1]

\* C13: write_mem(addr, v, size) with size 8 or 16 and a region inside one
\* 32-bit word writes back a word whose size/8 bytes from byte offset
\* (addr & 3) on hold v and whose other bytes equal the word read from the
\* target just before the write.
C13_WriteMemSubword ==
    \A i \in Returned("write_mem") :
        LET d == done[i]
        IN  (d.size \in {8, 16} /\ InsideWord(d.a, d.size))
                => /\ d.log1 = d.log0 + 2
                   /\ mbus_log[d.log1].addr = Pack32(Word(PRC_ADDR * 16 + 2))
                   /\ Merged(WrittenWord(d), d.a % 4, d.size, d.val, ReadBefore(d))

\* the same for the accesses whose offset is a multiple of their size
WriteMemSubwordAligned ==
    \A i \in Returned("write_mem") :
        LET d == done[i]
        IN  (d.size \in {8, 16} /\ (d.a % 4) % (d.size \div 8) = 0)
                => /\ d.log1 = d.log0 + 2
                   /\ Merged(WrittenWord(d), d.a % 4, d.size, d.val, ReadBefore(d))

\* a 16-bit write_mem at byte offset 1 of a word has returned
C13_Witness ==
    \E i \in Returned("write_mem") : done[i].size = 16 /\ done[i].a % 4 = 1

---------------------------------------------------------------------------
\* Properties of the debugger commands.

\* the halfword the target holds at address a
Halfword(mem, a) == <<ByteAt(mem, a), ByteAt(mem, a + 1)>>

\* the controller has nothing left to do and every write has arrived
Settled ==
    /\ ctrl.pc = "crashed" \/ (ctrl.pc = "idle" /\ reqQ = <<>>)
    /\ mbus_out = <<>>

\* done[i] is the command of a Z0,a,2 packet
IsZ(i, a) == done[i].cmd = "Z" /\ done[i].args = <<0, a, 2>>

\* the packet after that of done[i] is z0,a,2 and it is the last one sent
ThenZClear(i, a) ==
    /\ gdb.sent = done[i].n + 1
    /\ \/ \E j \in DOMAIN done :
             done[j].cmd = "z" /\ done[j].n = done[i].n + 1 /\ done[j].args = <<0, a, 2>>
       \/ \E k \in DOMAIN reqQ :
             /\ reqQ[k].cmd = "z" /\ reqQ[k].n = done[i].n + 1
             /\ reqQ[k].fields = Packet("z", <<0, a, 2>>).fields

RoundTrip(i, a) ==
    (IsZ(i, a) /\ ThenZClear(i, a) /\ Settled) =>
        /\ Halfword(tgt.mem, a) = Halfword(done[i].before, a)
        /\ Key(a) \notin DOMAIN displaced_insts
        /\ done[i].table0 = <<>> => displaced_insts = <<>>

\* C14: after Z0,a,2 followed by z0,a,2 the halfword at a is what it was
\* before the Z0 and the displaced-instructions table has no entry for a;
\* if the table was empty before, it is empty again.
C14_BreakpointRoundTrip ==
    \A i \in DOMAIN done : \A a \in BreakAddrs : RoundTrip(i, a)

\* ... which holds where the halfword at a lies within one word
BreakpointRoundTripInWord ==
    \A i \in DOMAIN done : \A a \in BreakAddrs : a % 4 # 3 => RoundTrip(i, a)

C14_Witness ==
    \E i \in DOMAIN done : \E a \in BreakAddrs :
        /\ IsZ(i, a) /\ ThenZClear(i, a) /\ Settled
        /\ a % 4 = 3
        /\ Key(a) \in DOMAIN displaced_insts
        /\ done[i].exc = "UnalignedException"

BreakpointRoundTripDone ==
    \E i, j \in DOMAIN done : \E a \in BreakAddrs :
        /\ IsZ(i, a) /\ ThenZClear(i, a) /\ Settled
        /\ done[j].cmd = "z" /\ done[j].n = done[i].n + 1
        /\ done[i].table0 = <<>>
        /\ Halfword(done[j].before, a) # Halfword(tgt.mem, a)

\* the trap instruction as it lies in memory
TrapBytes == <<SVC_01 % 256, SVC_01 \div 256>>

\* done[i] is a single step that came to its end
IsStep(i) == done[i].cmd = "s" /\ done[i].exc = ""

StepRestores(i) ==
    LET d == done[i]
    IN  /\ Halfword(d.after, d.brk) = Halfword(d.before, d.brk)
        /\ Key(d.spc) \in DOMAIN d.table0 =>
              /\ Halfword(d.after, d.spc) = TrapBytes
              /\ Key(d.spc) \in DOMAIN d.table1
              /\ d.table1[Key(d.spc)] = d.table0[Key(d.spc)]
        /\ d.out1 - d.out0 = 1
        /\ d.ret = Some(Reply("S05", <<>>))

\* C15: when a single step completes, memory at next_pc holds what it held
\* before the step; a breakpoint at PC is in memory and in the table again;
\* exactly one S05 is the reply.
C15_StepRestores == \A i \in DOMAIN done : IsStep(i) => StepRestores(i)

\* ... which holds for a step whose next_pc is not a breakpoint already
StepRestoresFreeNext ==
    \A i \in DOMAIN done :
        (IsStep(i) /\ Key(done[i].brk) \notin DOMAIN done[i].table0) => StepRestores(i)

\* a step onto a breakpoint
C15_Witness ==
    \E i \in DOMAIN done :
        /\ IsStep(i)
        /\ Key(done[i].brk) \in DOMAIN done[i].table0
        /\ Halfword(done[i].before, done[i].brk) = TrapBytes
        /\ Halfword(done[i].after, done[i].brk) # TrapBytes
        /\ Key(done[i].brk) \notin DOMAIN done[i].table1

\* a step off a breakpoint
StepOffBreakpoint ==
    \E i \in DOMAIN done :
        /\ IsStep(i)
        /\ Key(done[i].spc) \in DOMAIN done[i].table0
        /\ Key(done[i].brk) \notin DOMAIN done[i].table0
        /\ Halfword(done[i].after, done[i].spc) = TrapBytes

\* done[i] is the command of an m addr,len packet handled with the target halted
IsRead(i) == done[i].cmd = "m" /\ done[i].halted /\ done[i].args[2] >= 1

ReadReply(i) ==
    /\ done[i].exc = ""
    /\ done[i].ret = Some(Reply("hex", EncodeHex(BytesAt(done[i].before,
                                                        done[i].args[1], done[i].args[2]))))

\* C17: the reply to m addr,len on a halted target is the 2*len hex digits
\* of the bytes at addr .. addr+len-1, in address order.
C17_ReadMemoryReply == \A i \in DOMAIN done : IsRead(i) => ReadReply(i)

\* ... which holds unless the last piece read is 3 bytes long, or 2 bytes
\* long at an address that is 1 modulo 4
ReadMemoryReplyWholePieces ==
    \A i \in DOMAIN done :
        (/\ IsRead(i)
         /\ done[i].args[2] % 4 # 3
         /\ ~(done[i].args[2] % 4 = 2 /\ done[i].args[1] % 4 = 1)) => ReadReply(i)

C17_Witness ==
    \E i \in DOMAIN done :
        /\ IsRead(i)
        /\ done[i].args[2] = 3
        /\ done[i].exc = "KeyError"

ReadMemoryReplied ==
    \E i \in DOMAIN done :
        /\ IsRead(i) /\ ReadReply(i)
        /\ done[i].args = <<CodeBase + 3, 6>>
        /\ Len(done[i].ret[1].data) = 12

\* done[i] is a continue handled on a halted target, and the client has
\* sent no packet since
IsContinue(i) == done[i].cmd = "c" /\ done[i].exc = "" /\ gdb.sent = done[i].n

\* the replies, and the S05 replies, produced since the command done[i]
\* returned
RepliesSince(i) == ReplyCount(conn_out \o respQ) - done[i].rep1
S05Since(i) == S05Count(conn_out \o respQ) - done[i].out1

\* a halt announcement has been processed since the command done[i]
HaltedSince(i) == halt_thread.count > done[i].halts

\* C16: a continue produces no reply of its own; until the next halt
\* announcement has been processed there is no reply, and from then on there
\* is exactly one, the S05.
C16_ContinueReply ==
    \A i \in DOMAIN done :
        IsContinue(i) =>
            /\ done[i].ret = None /\ done[i].rep1 = done[i].rep0
            /\ ~HaltedSince(i) => RepliesSince(i) = 0
            /\ HaltedSince(i) => (RepliesSince(i) = 1 /\ S05Since(i) = 1)

\* the halt after a continue came from the interrupt byte
C16_Witness ==
    \E i \in DOMAIN done :
        /\ IsContinue(i) /\ HaltedSince(i)
        /\ gdb.ctrlc = 1 /\ displaced_insts = <<>>
        /\ \E k \in DOMAIN conn_out : conn_out[k].kind = "S05" /\ k > done[i].rep1
        /\ S05Since(i) = 1

\* ... or from a breakpoint
ContinueToBreakpoint ==
    \E i \in DOMAIN done :
        /\ IsContinue(i) /\ HaltedSince(i)
        /\ gdb.ctrlc = 0 /\ displaced_insts # <<>>
        /\ S05Since(i) = 1

\* C18: whenever the base address of the register file is set, the address
\* of the flag is set; after resume() neither is.
C18_RegfileBaseNeedsFlag == prc.base_addr # None => prc.flag_addr # None

\* resume() has returned: the flag address is cleared, the base address is not
C18_Witness ==
    /\ \E i \in DOMAIN done : done[i].cmd = "c" /\ done[i].exc = "" /\ done[i].halts = halt_thread.count
    /\ prc.flag_addr = None
    /\ prc.base_addr # None

\* the flag address is never set without the base address
FlagNeedsRegfileBase == prc.flag_addr # None => prc.base_addr # None

\* done[i] is the kill that _gdb_rx queues when the client disconnects
IsDisconnectKill(i) == done[i].cmd = "k" /\ done[i].n = 0

\* C20: on a disconnect the controller sends nothing to the target: a
\* halted target stays halted, a running one keeps running.
C20_DisconnectLeavesTarget ==
    \A i \in DOMAIN done :
        IsDisconnectKill(i) =>
            /\ done[i].log1 = done[i].log0
            /\ done[i].halted1 = done[i].halted

\* ... which holds when the target is not halted
DisconnectLeavesRunning ==
    \A i \in DOMAIN done :
        (IsDisconnectKill(i) /\ ~done[i].halted) =>
            /\ done[i].log1 = done[i].log0
            /\ done[i].halted1 = done[i].halted

\* the disconnect has resumed a halted target
C20_Witness ==
    \E i \in DOMAIN done :
        /\ IsDisconnectKill(i)
        /\ done[i].halted /\ done[i].state = "halted"
        /\ done[i].log1 = done[i].log0 + 1
        /\ mbus_log[done[i].log1] = MemWrMessage(FlagAddr, Word(1))
        /\ tgt.state = "running"
        /\ gdb.rx = "closed"

\* resume() has been called
Resumed == \E k \in DOMAIN mbus_log : mbus_log[k] = MemWrMessage(FlagAddr, Word(1))

\* the target has halted and sent its two notifications, which the halt
\* thread has not worked through yet
HaltAnnounced ==
    /\ tgt.state = "halted"
    /\ \/ \E k \in DOMAIN bpp : Unpack32(bpp[k].addr) = Word(HALT_NOTIFY)
       \/ halt_queue # <<>>
       \/ halt_thread.pc = "second"

---------------------------------------------------------------------------
\* Properties of GdbRemote.

\* get() delivers a request: the controller takes the head of the queue
Delivers == reqQ # <<>> /\ reqQ' = Tail(reqQ)

\* the client has closed the connection and every earlier request has been
\* taken from the queue: what is left is what the close has put
ClosedAndConsumed == gdb.rx = "closed" /\ Len(reqQ) = 2

\* C21: the first request get() delivers after the client has closed the
\* connection, the earlier ones being consumed, is _quit_.
C21_QuitAfterClose ==
    [][(ClosedAndConsumed /\ Delivers) => Head(reqQ).cmd = "_quit_"]_vars

\* the first one is the kill: it is in work, _quit_ is still queued
C21_Witness ==
    /\ gdb.rx = "closed"
    /\ ctrl.cmd = "k"
    /\ Len(reqQ) = 1 /\ reqQ[1].cmd = "_quit_"

\* ... and _quit_ is the second
QuitSecondAfterClose ==
    [][(gdb.rx = "closed" /\ Len(reqQ) = 1 /\ Delivers) =>
           Head(reqQ).cmd = "_quit_"]_vars

QuitDelivered == gdb.rx = "closed" /\ reqQ = <<>> /\ ctrl.pc = "quit"

\* done[i] is the halt request of an interrupt byte: cmd__ctrlc_ has called
\* halt(), which has written register 7
IsInterrupt(i) ==
    /\ done[i].cmd = "_ctrlc_" /\ done[i].exc = ""
    /\ done[i].log1 = done[i].log0 + 1
    /\ mbus_log[done[i].log1] = RegWrMessage(7, 1)

\* C22: the request of an interrupt byte is never behind a request that was
\* queued, or a command that was in work, when the byte arrived: its halt
\* request does not wait for them.
C22_InterruptBypassesQueue ==
    \A k \in DOMAIN reqQ :
        reqQ[k].cmd = "_ctrlc_" => (k = 1 /\ ctrl.pc = "idle")

\* the interrupt is queued behind a continue that has not been taken yet
C22_Witness ==
    \E k \in DOMAIN reqQ :
        /\ reqQ[k].cmd = "_ctrlc_"
        /\ k > 1 /\ reqQ[1].cmd = "c"

\* the halt request of an interrupt, issued after the continue before it
\* was processed
InterruptAfterContinue ==
    \E i \in DOMAIN done :
        /\ IsInterrupt(i)
        /\ i > 1 /\ done[i - 1].cmd = "c"
        /\ done[i - 1].log1 <= done[i].log0

\* an interrupt byte that found the controller idle and the queue empty
InterruptAtOnce ==
    reqQ # <<>> /\ reqQ[1].cmd = "_ctrlc_" /\ ctrl.pc = "idle" /\ Len(reqQ) = 1

\* the interrupt is taken up only at the head of the queue, by the idle
\* controller
InterruptInOrder ==
    [][(ctrl.cmd # "_ctrlc_" /\ ctrl'.cmd = "_ctrlc_") =>
           (ctrl.pc = "idle" /\ reqQ # <<>> /\ Head(reqQ).cmd = "_ctrlc_")]_vars

\* the replies, without the acknowledgements, in the order they were put
RECURSIVE RepliesOf(_)
RepliesOf(q) ==
    IF q = <<>> THEN <<>>
    ELSE IF Head(q).kind \in {"+", "GDB_QUIT"} THEN RepliesOf(Tail(q))
    ELSE <<Head(q)>> \o RepliesOf(Tail(q))

Replies == RepliesOf(conn_out \o respQ)
AckCount == Cardinality({i \in DOMAIN (conn_out \o respQ) : (conn_out \o respQ)[i].kind = "+"})

\* a packet whose command type, or whose query, the server does not support
UnsupportedType(pkt) ==
    pkt.type \notin {"?", "D", "c", "k", "g", "s", "M", "P", "X", "Z", "m", "p", "q", "v", "z"}
UnsupportedQuery(pkt) ==
    /\ pkt.type = "q"
    /\ pkt.fields[1] \notin {"C", "fThreadInfo", "L", "Attached", "Offsets",
                              "Supported", "Symbol", "TStatus"}

\* the k-th packet is acknowledged and, if answered, answered with the
\* empty packet, and both threads of the server go on
AnsweredEmpty(k) ==
    /\ AckCount >= k
    /\ Len(Replies) >= k => Replies[k].kind = ""
    /\ gdb.rx # "dead"
    /\ ctrl.pc # "crashed"
    /\ (gdb.pending = "" /\ Len(gdb.rcvd) = k) => Len(Replies) = k

\* C23: a packet of an unsupported command type or query is answered with
\* '+' and the empty packet, and the server goes on serving the connection.
C23_UnsupportedAnswered ==
    \A k \in DOMAIN gdb.rcvd :
        (UnsupportedType(gdb.rcvd[k]) \/ UnsupportedQuery(gdb.rcvd[k])) => AnsweredEmpty(k)

\* ... which holds for the type H, the one _process_command answers itself,
\* as long as no other unsupported packet came before
UnsupportedAnsweredH ==
    \A k \in DOMAIN gdb.rcvd :
        (/\ gdb.rcvd[k].type = "H"
         /\ \A j \in 1..Len(gdb.rcvd) :
               ~UnsupportedQuery(gdb.rcvd[j]) /\ gdb.rcvd[j].type # "T") => AnsweredEmpty(k)

\* the receive thread has ended on a packet of unknown type
C23_Witness ==
    /\ gdb.rcvd # <<>>
    /\ gdb.rcvd[Len(gdb.rcvd)].type = "T"
    /\ gdb.rx = "dead"
    /\ AckCount = Len(gdb.rcvd)
    /\ respQ = <<>>
    /\ Len(Replies) = Len(gdb.rcvd) - 1

\* the controller has ended on an unknown query
UnknownQueryStops ==
    /\ ctrl.pc = "crashed" /\ ctrl.exc = "UnsupportedException"
    /\ \E k \in DOMAIN gdb.rcvd : UnsupportedQuery(gdb.rcvd[k])

\* H answered, and a packet answered after it
UnsupportedThenServed ==
    /\ Len(gdb.rcvd) = 2 /\ gdb.rcvd[1].type = "H"
    /\ Len(RepliesOf(conn_out)) = 2
    /\ conn_out[2].kind = "" /\ conn_out[4].kind = "PacketSize=4096"

---------------------------------------------------------------------------
\* Properties of the NAK handling of _fragment_sender.

IsFragmented(i) == results[i].op \in {"mbus_send", "i2c_send"} /\ results[i].got # <<>>

EmptyNak(a) == a[1] = 1 /\ a[2] = <<>>

\* the payload bytes of the frames that were ACKed, among the first n
RECURSIVE AckedBytes(_, _, _)
AckedBytes(fs, got, n) ==
    IF n = 0 THEN 0
    ELSE AckedBytes(fs, got, n - 1) + (IF got[n][1] = 0 THEN Len(fs[n].payload) ELSE 0)

\* the k-th frame of the call was NAKed with an empty body and the call went on
RetriedAt(i, k) == k < Len(results[i].got) /\ EmptyNak(results[i].got[k])

SameFragmentAgain(i, k) ==
    LET fs == FramesOfCall(i)
    IN  /\ Len(fs) > k
        /\ fs[k + 1].type = fs[k].type
        /\ fs[k + 1].payload = fs[k].payload

CountsAcked(i) ==
    LET r == results[i]
    IN  (r.kind = "return" /\ r.got[Len(r.got)][1] = 0) =>
            r.num = AckedBytes(FramesOfCall(i), r.got, Len(r.got))

\* C24: after a NAK with an empty body the same fragment is written again
\* before any later one, and its bytes count as sent only if that second
\* writing is ACKed.
C24_EmptyNakRetry ==
    \A i \in DOMAIN results :
        IsFragmented(i) =>
            /\ \A k \in DOMAIN results[i].got : RetriedAt(i, k) => SameFragmentAgain(i, k)
            /\ (\E k \in DOMAIN results[i].got : RetriedAt(i, k)) => CountsAcked(i)

\* ... which holds for the last fragment
EmptyNakRetryLast ==
    \A i \in DOMAIN results :
        (/\ IsFragmented(i)
         /\ \A k \in DOMAIN results[i].got :
               RetriedAt(i, k) => Len(FramesOfCall(i)[k].payload) < FRAG_SIZE)
            => /\ \A k \in DOMAIN results[i].got :
                     RetriedAt(i, k) => SameFragmentAgain(i, k)
               /\ CountsAcked(i)

\* a full fragment was NAKed without a body, the next fragment followed and
\* the call returned the whole length
C24_Witness ==
    \E i \in DOMAIN results :
        /\ IsFragmented(i) /\ RetriedAt(i, 1)
        /\ Len(FramesOfCall(i)[1].payload) = FRAG_SIZE
        /\ FramesOfCall(i)[2].payload # FramesOfCall(i)[1].payload
        /\ results[i].kind = "return"
        /\ results[i].got[Len(results[i].got)][1] = 0
        /\ results[i].num = AckedBytes(FramesOfCall(i), results[i].got,
                                       Len(results[i].got)) + FRAG_SIZE

\* the last fragment, NAKed without a body, written again and ACKed
LastFragmentRetried ==
    \E i \in DOMAIN results : \E k \in DOMAIN results[i].got :
        /\ IsFragmented(i) /\ RetriedAt(i, k)
        /\ Len(FramesOfCall(i)[k].payload) < FRAG_SIZE
        /\ Len(FramesOfCall(i)[k].payload) > 0
        /\ SameFragmentAgain(i, k)
        /\ results[i].kind = "return"
        /\ results[i].got[k + 1][1] = 0

\* the call ended on a NAK with a body of one byte
EndsOnNakWithCount(i) ==
    LET g == results[i].got
    IN  g[Len(g)][1] = 1 /\ Len(g[Len(g)][2]) = 1

NakCountReturned(i) ==
    LET r == results[i]
        n == Len(r.got)
    IN  /\ Len(FramesOfCall(i)) = n
        /\ r.kind = "return"
        /\ r.num = AckedBytes(FramesOfCall(i), r.got, n - 1) + r.got[n][2][1]

\* C25: when a fragment is NAKed with a body of one byte n, nothing more is
\* written and the call returns the length of the fragments ACKed before
\* plus n.
C25_NakCount ==
    \A i \in DOMAIN results :
        (IsFragmented(i) /\ EndsOnNakWithCount(i)) => NakCountReturned(i)

\* ... which holds when no full fragment was NAKed without a body before
NakCountNoRetryBefore ==
    \A i \in DOMAIN results :
        (/\ IsFragmented(i) /\ EndsOnNakWithCount(i)
         /\ \A k \in DOMAIN results[i].got :
               RetriedAt(i, k) => Len(FramesOfCall(i)[k].payload) < FRAG_SIZE)
            => NakCountReturned(i)

\* a full fragment NAKed without a body, the next one NAKed with a count
C25_Witness ==
    \E i \in DOMAIN results :
        /\ IsFragmented(i) /\ EndsOnNakWithCount(i)
        /\ Len(results[i].got) = 2
        /\ EmptyNak(results[i].got[1])
        /\ Len(FramesOfCall(i)[1].payload) = FRAG_SIZE
        /\ results[i].num = FRAG_SIZE + results[i].got[2][2][1]

\* fragments ACKed, then one NAKed with a count
NakCountAfterAcks ==
    \E i \in DOMAIN results :
        /\ IsFragmented(i) /\ EndsOnNakWithCount(i)
        /\ Len(results[i].got) = 3
        /\ results[i].got[1][1] = 0 /\ results[i].got[2][1] = 0
        /\ NakCountReturned(i)
        /\ results[i].num = 2 * FRAG_SIZE + 3

---------------------------------------------------------------------------
\* Properties of negotiate_version.

IsConnect(i) == results[i].op = "connect"

\* the index of the first ACK among the replies g from n on, 0 if none
FirstAck(g, n) ==
    LET acks == {k \in n..Len(g) : g[k][1] = 0}
    IN  IF acks = {} THEN 0 ELSE CHOOSE k \in acks : \A j \in acks : k <= j

IsRequest(f, ty, payload) == f.type = Chr(ty) /\ f.payload = payload

NoVFrame(fs) == \A n \in DOMAIN fs : fs[n].type # Chr("v")

\* the board's answer to V holds no version of ICE.VERSIONS
NothingSupported(i) ==
    LET g == results[i].got
    IN  /\ FirstAck(g, 1) # 0
        /\ g[FirstAck(g, 1)][2] # <<>>
        /\ PairsOf(g[FirstAck(g, 1)][2]) \cap VERSIONS = {}

\* the answer is a list of pairs, one of them in ICE.VERSIONS
SomethingSupported(i) ==
    LET g == results[i].got
    IN  /\ FirstAck(g, 1) # 0
        /\ Len(g[FirstAck(g, 1)][2]) % 2 = 0
        /\ PairsOf(g[FirstAck(g, 1)][2]) \cap VERSIONS # {}

\* C26: when the answer to V holds no supported version, the negotiation
\* fails with VersionError and no v request is written.
C26_NoVersionFails ==
    \A i \in DOMAIN results :
        (IsConnect(i) /\ NothingSupported(i)) =>
            /\ results[i].kind = "raise"
            /\ results[i].exc = "VersionError"
            /\ NoVFrame(FramesOfCall(i))

\* ... it fails with the base class ICE_Error, and no v request is written
NoVersionRaises ==
    \A i \in DOMAIN results :
        (IsConnect(i) /\ NothingSupported(i)) =>
            /\ results[i].kind = "raise"
            /\ results[i].exc = "ICE_Error"
            /\ NoVFrame(FramesOfCall(i))
            /\ ~version.chosen

\* the board offered version 0.9 only: ICE_Error
C26_Witness ==
    \E i \in DOMAIN results :
        /\ IsConnect(i) /\ NothingSupported(i)
        /\ results[i].got[FirstAck(results[i].got, 1)][2] = <<0, 9>>
        /\ results[i].exc = "ICE_Error"
        /\ NoVFrame(FramesOfCall(i))

\* the order of the requests of one finished connect, and the session it
\* leaves (a request that was NAKed is followed by requests of its type, the
\* attempts of send_message_until_acked, up to its ACK)
NegotiationOrder(i) ==
    LET fs == FramesOfCall(i)
        g  == results[i].got
        kV == FirstAck(g, 1)
    IN  /\ IsRequest(fs[1], "V", <<>>)
        /\ \A n \in 1..(IF kV = 0 THEN Len(fs) ELSE kV) : fs[n].type = Chr("V")
        /\ (kV # 0 /\ SomethingSupported(i)) =>
              LET v  == ChooseVersion(g[kV][2])[1]
                  kv == FirstAck(g, kV + 1)
              IN  /\ Len(fs) > kV
                  /\ IsRequest(fs[kV + 1], "v", v)
                  /\ \A n \in (kV + 1)..(IF kv = 0 THEN Len(fs) ELSE kv) :
                        fs[n].type = Chr("v")
                  /\ version.chosen /\ <<version.major, version.minor>> = v
                  /\ (kv # 0 /\ v[2] = 1) =>
                        /\ Len(fs) = kv
                        /\ results[i].kind = "return"
                        /\ capabilities = LegacyCapabilities
                  /\ (kv # 0 /\ v[2] >= 2) =>
                        LET kq == FirstAck(g, kv + 1)
                        IN  /\ Len(fs) > kv
                            /\ IsRequest(fs[kv + 1], "?", <<Chr("?")>>)
                            /\ \A n \in (kv + 1)..(IF kq = 0 THEN Len(fs) ELSE kq) :
                                  fs[n].type = Chr("?")
                            /\ kq # 0 => capabilities = g[kq][2]

\* C27: connect writes V with an empty payload first and v with the chosen
\* pair right after the ACK of V; at minor 1 no capability query is written
\* and the capabilities are VvXxdIifOoGgPp, at minor 2 and above the query
\* ?? follows the ACK of v and the capabilities are the board's answer.
C27_NegotiationOrder ==
    \A i \in DOMAIN results : IsConnect(i) => NegotiationOrder(i)

\* both cases: a connect at minor 1, or one at minor 2 or above whose query
\* was answered with the short capability string
C27_Witness ==
    \E i \in DOMAIN results :
        /\ IsConnect(i) /\ results[i].kind = "return"
        /\ version.chosen /\ version.minor >= 3
        /\ capabilities = FewCapabilities
        /\ Len(FramesOfCall(i)) = 3

ConnectedLegacy ==
    \E i \in DOMAIN results :
        /\ IsConnect(i) /\ results[i].kind = "return"
        /\ version.chosen /\ version.minor = 1
        /\ capabilities = LegacyCapabilities
        /\ Len(FramesOfCall(i)) = 2

\* C28: the capabilities of a session hold V, v, X and x in every state.
C28_CapabilityFloor ==
    {Chr("V"), Chr("v"), Chr("X"), Chr("x")} \subseteq Range(capabilities)

\* ... which holds until the board's answer to the capability query is stored
CapabilityFloorBeforeQuery ==
    (~version.chosen \/ version.minor = 1 \/ caller.outer \in {"neg_V", "neg_v", "caps"})
        => C28_CapabilityFloor

\* a session connected to the simulator at minor 4: its capabilities are the
\* simulator's string, without V, v, X and x
C28_Witness ==
    /\ \E i \in DOMAIN results : IsConnect(i) /\ results[i].kind = "return"
    /\ version.chosen /\ version.minor = 4
    /\ capabilities = SimCapabilities
    /\ Chr("V") \notin Range(capabilities)

---------------------------------------------------------------------------
\* Properties of the simulator.

\* main_loop is done with the k-th request it read
Handled(k) == k < Len(reads) \/ sim.pc = "read"

\* the positions in s_out of the ACK and NAK frames written between the
\* reading of the k-th request and the reading of the next
RepliesTo(k) ==
    LET last == IF k < Len(reads) THEN reads[k + 1].at ELSE Len(s_out)
    IN  {j \in (reads[k].at + 1)..last : s_out[j].type \in {0, 1}}

\* the B frames written between the reading of the k-th request and its reply
SnoopedBefore(k) ==
    {j \in (reads[k].at + 1)..Len(s_out) :
        /\ s_out[j].type = Chr("B")
        /\ \E r \in RepliesTo(k) : j < r}

\* the requests whose handler only logs an error
OnlyLogged(k) ==
    LET f == reads[k].req
    IN  \/ f.type \in {Chr("M"), Chr("m")}
           /\ reads[k].minor[1] >= 2
           /\ f.payload # <<>>
           /\ f.payload[1] \notin Range(Str(<<"l", "s", "S", "b", "B", "m", "c", "i", "p", "r">>))
        \/ f.type = Chr("O")
           /\ f.payload # <<>>
           /\ f.payload[1] # Chr("c")
           /\ (f.payload[1] = Chr("o") => reads[k].minor[1] = 1)

\* C29: for every request read after the version negotiation, of whatever
\* type and subtype, the simulator writes exactly one ACK or NAK frame before
\* it reads the next request.
C29_OneReply ==
    \A k \in DOMAIN reads :
        (reads[k].minor # None /\ Handled(k)) => Cardinality(RepliesTo(k)) = 1

\* ... except for the requests whose handler only logs, which get none
OneReplyUnlessLogged ==
    \A k \in DOMAIN reads :
        (reads[k].minor # None /\ Handled(k)) =>
            Cardinality(RepliesTo(k)) = (IF OnlyLogged(k) THEN 0 ELSE 1)

\* an M request with an unknown subtype, read after the negotiation, was
\* left without a reply and the next request has been read
C29_Witness ==
    \E k \in DOMAIN reads :
        /\ reads[k].minor # None /\ k < Len(reads)
        /\ reads[k].req.type = Chr("M")
        /\ reads[k].req.payload = <<Chr("x")>>
        /\ RepliesTo(k) = {}

\* a request of an unknown type answered with one NAK
UnknownTypeNaked ==
    \E k \in DOMAIN reads :
        /\ reads[k].minor # None /\ Handled(k)
        /\ reads[k].req.type = Chr("Z")
        /\ \E j \in 1..Len(s_out) : RepliesTo(k) = {j} /\ s_out[j].type = 1

\* C30: the reply to a request carries the event id of the request, also
\* while the generator or the replay thread writes B frames.
C30_ReplyEventId ==
    \A k \in DOMAIN reads :
        \A j \in RepliesTo(k) : s_out[j].event_id = reads[k].req.event_id

\* ... which holds when no B frame was written between the reading of the
\* request and its reply
ReplyEventIdUndisturbed ==
    \A k \in DOMAIN reads :
        SnoopedBefore(k) = {} =>
            \A j \in RepliesTo(k) : s_out[j].event_id = reads[k].req.event_id

\* a B frame was written after a request was read and before its reply,
\* and the reply carries the event id after the request's
C30_Witness ==
    \E k \in DOMAIN reads :
        /\ SnoopedBefore(k) # {}
        /\ \E j \in RepliesTo(k) :
              s_out[j].event_id = (reads[k].req.event_id + 1) % BYTE

\* a B frame of the replay thread between two requests, both answered with
\* their own event ids
SnoopBetweenRequests ==
    \E k \in DOMAIN reads : \E j \in 1..Len(s_out) :
        /\ k < Len(reads)
        /\ s_out[j].type = Chr("B") /\ s_out[j].payload[Len(s_out[j].payload)] = 2
        /\ \E r \in RepliesTo(k) : r < j /\ s_out[r].event_id = reads[k].req.event_id
        /\ \E r \in RepliesTo(k + 1) :
              j < r /\ s_out[r].event_id = reads[k + 1].req.event_id

---------------------------------------------------------------------------
\* Properties of the baud rate calls.

\* the rates of ice_set_baudrate_to_115200, _to_2000000 and _to_3_megabaud
StatedBauds == {115200, 2000000, 3000000}

\* the bytes of the divider in the last reply call i received
ReportedDivider(i) ==
    LET g == results[i].got
    IN  IF g # <<>> /\ g[Len(g)][1] = 0 /\ Len(g[Len(g)][2]) = 2
        THEN Some(UnpackH(g[Len(g)][2]))
        ELSE None

\* call i is an ice_get_baudrate that follows a completed ice_set_baudrate
\* of rate b, and the board reported the divider of that call back
GetAfterSet(i, b) ==
    /\ i > 1
    /\ results[i].op = "ice_get_baudrate"
    /\ results[i - 1].op = "ice_set_baudrate"
    /\ results[i - 1].kind = "return"
    /\ results[i - 1].arg[2] = b
    /\ ReportedDivider(i) = Some(results[i - 1].arg[1])

\* C31: for each b of 115200, 2000000 and 3000000: after the baud rate is set
\* to b and the board reports the divider of b back, ice_get_baudrate
\* returns b.
C31_BaudRoundTrip ==
    \A i \in DOMAIN results : \A b \in StatedBauds :
        GetAfterSet(i, b) => (results[i].kind = "return" /\ results[i].num = b)

\* ... which holds of 3000000
BaudRoundTrip3M ==
    \A i \in DOMAIN results :
        GetAfterSet(i, 3000000) =>
            (results[i].kind = "return" /\ results[i].num = 3000000)

\* after 115200 the call returns 1152200, after 2000000 it raises FormatError
BaudDecodedAsCoded ==
    \A i \in DOMAIN results :
        /\ GetAfterSet(i, 115200) =>
              (results[i].kind = "return" /\ results[i].num = 1152200)
        /\ GetAfterSet(i, 2000000) =>
              (results[i].kind = "raise" /\ results[i].exc = "FormatError")

\* the rate was set to 2000000, the board reported 0x000A, and
\* ice_get_baudrate raised FormatError
C31_Witness ==
    \E i \in DOMAIN results :
        /\ GetAfterSet(i, 2000000)
        /\ results[i].kind = "raise" /\ results[i].exc = "FormatError"

\* the rate was set to 3000000 and read back as 3000000
ThreeMegabaudReadBack ==
    \E i \in DOMAIN results :
        GetAfterSet(i, 3000000) /\ results[i].num = 3000000

---------------------------------------------------------------------------
\* Properties of send_message called from two threads.

\* the frames the two threads wrote (connect writes V, v and ? frames only)
ThreadFrames == {k \in DOMAIN sent : sent[k].type \in {Chr("m"), Chr("b")}}

\* the event ids of a set of frames make up one run e, e+1, ... modulo 256
ConsecutiveIds(K) ==
    K # {} =>
        \E e \in {sent[k].event_id : k \in K} :
            {sent[k].event_id : k \in K} =
                {(e + i) % BYTE : i \in 0..(Cardinality(K) - 1)}

\* C32: when two threads call send_message on one session at once, each
\* frame reaches the serial device whole, and the frames written carry
\* distinct, consecutive event ids modulo 256.
C32_ConcurrentSends ==
    /\ \A k \in ThreadFrames : sent[k].length = Len(sent[k].payload)
    /\ \A j, k \in ThreadFrames : j # k => sent[j].event_id # sent[k].event_id
    /\ ConsecutiveIds(ThreadFrames)

\* each frame is handed to the device by one write, header and payload
FramesWritten ==
    [][\A t \in Threads :
          threads[t].pc = "stored" /\ threads'[t].pc = "wait" =>
              /\ Len(sent') = Len(sent) + 1
              /\ sent'[Len(sent')].length = Len(sent'[Len(sent')].payload)
              /\ sent'[Len(sent')].payload = threads[t].msg]_vars

\* both threads have written a frame, and the two frames carry one event id
C32_Witness ==
    \E j, k \in ThreadFrames :
        /\ j < k
        /\ sent[j].type # sent[k].type
        /\ sent[j].event_id = sent[k].event_id

\* both threads have written frames with ids that follow one another
ThreadsInTurn ==
    \E j, k \in ThreadFrames :
        /\ sent[j].type # sent[k].type
        /\ sent[k].event_id = (sent[j].event_id + 1) % BYTE

---------------------------------------------------------------------------
\* Properties of HaltRegFile and the halt thread.

\* the address in the target's memory that an MBus message reads or writes
AccessAddr(m) ==
    IF m.addr[4] % 16 = 3 THEN IntOf(Unpack32(SubSeq(m.data, 5, 8)))
    ELSE IntOf(Unpack32(SubSeq(m.data, 1, 4)))

\* the controller thread is inside a RegFile access (it holds the lock) in
\* this state or the next
InRegAccess == ctrl.lock \/ ctrl'.lock

\* C33: a RegFile access and an update of flag_addr and regfile_base by the
\* halt thread exclude one another: while an access lasts neither field
\* changes, the MBus message of the access goes to an offset of the base
\* address in effect, and no access runs while flag_addr is unset.
C33_RegFileExclusive ==
    [][/\ InRegAccess =>
            (prc'.base_addr = prc.base_addr /\ prc'.flag_addr = prc.flag_addr)
       /\ ctrl'.lock => prc'.flag_addr # None
       /\ (ctrl.lock /\ Len(mbus_log') > Len(mbus_log)) =>
            \E name \in Range(RegNames) :
                AccessAddr(mbus_log'[Len(mbus_log')]) =
                    prc'.base_addr[1] + RegOffsets(name)
      ]_vars

\* a forceWrite has sent its message and still holds the lock, while the
\* halt thread has both messages of an announcement and waits for the lock
C33_Witness ==
    /\ ctrl.pc = "P_done" /\ ctrl.lock /\ ctrl.plan = <<>>
    /\ halt_thread.pc = "second" /\ halt_queue # <<>>

\* the same during the read of pc by cmd_s
ReadWhileAnnounced ==
    /\ ctrl.pc = "s_pc" /\ ctrl.lock /\ ctrl.wait
    /\ halt_thread.pc = "second" /\ halt_queue # <<>>

\* an access made after the update goes to the new register area
AccessAfterUpdate ==
    /\ ctrl.lock /\ ctrl.plan = <<>>
    /\ prc.base_addr = Some(RegBase + 256)
    /\ AccessAddr(mbus_log[Len(mbus_log)]) = RegBase + 256 + RegOffsets("pc")

---------------------------------------------------------------------------
\* Properties of the halt thread's callback.

\* the halt thread takes the first message of an announcement
TakesFirst == halt_thread.pc = "first" /\ halt_thread'.pc = "second"

\* the halt thread takes the second message and completes the announcement
TakesSecond == halt_thread'.count = halt_thread.count + 1

\* finished commands that registered a callback (halt(cb), resume(cb)) or
\* answered S05 themselves
Registrations ==
    {i \in DOMAIN done :
        done[i].exc = "" /\ done[i].cmd \in {"_question_", "_ctrlc_", "c"}}

\* C34: for each halt announcement (two 0xe0 messages in a row) the halt
\* thread sets flag_addr to the data of the first and the base address of
\* the registers to the data of the second, and calls the callback registered
\* last once with S05; a callback registered by one halt(cb) or resume(cb) is
\* never called more than once.
C34_HaltCallback ==
    [][/\ TakesFirst =>
            halt_thread'.flag_addr = IntOf(Unpack32(Head(halt_queue).data))
       /\ TakesSecond =>
            /\ prc'.flag_addr = Some(halt_thread.flag_addr)
            /\ prc'.base_addr = Some(IntOf(Unpack32(Head(halt_queue).data)))
            /\ respQ' = IF prc.halt_cb # None
                        THEN Append(respQ, Reply("S05", <<>>)) ELSE respQ
            /\ prc'.halt_cb = None
       /\ S05Count(conn_out' \o respQ') <= Cardinality(Registrations')
      ]_vars

\* two announcements have been processed since the one callback registered
\* was called: it was called once
C34_Witness ==
    /\ halt_thread.count >= 2
    /\ Cardinality(Registrations) = 1
    /\ S05Count(conn_out \o respQ) = 1
    /\ prc.base_addr = Some(RegBase + 256)

\* a callback registered by resume(cb) has been called
ResumeCallbackCalled ==
    /\ \E i \in Registrations : done[i].cmd = "c"
    /\ S05Count(conn_out \o respQ) = 2
    /\ halt_thread.count >= 2

---------------------------------------------------------------------------
\* Frames of types without a handler.

\* bytes of rx the frame now being read still needs
NeedOfFrame ==
    IF reader.pc = "header" THEN 3 + rx[3] ELSE reader.length - Len(reader.buf)

\* the reader hands a frame over in this step; the entry it logs
FrameDelivered == Len(dispatched') = Len(dispatched) + 1
LastDispatched == dispatched'[Len(dispatched')]

\* bytes the step takes from rx beyond the frame
ExtraBytes == Len(rx) - Len(rx') - NeedOfFrame

\* the step that hands over a frame of a type without handler: a type among
\* the capabilities costs no further byte; another type costs the byte that
\* follows the frame, or leaves the reader in dev.read() when none is there
UnhandledStep ==
    (FrameDelivered /\ LastDispatched.gate = "nohandler") =>
        IF Contains(capabilities, <<LastDispatched.type>>)
        THEN ExtraBytes = 0 /\ reader'.pc = "top"
        ELSE \/ ExtraBytes = 1 /\ reader'.pc = "top"
             \/ ExtraBytes = 0 /\ rx' = <<>> /\ reader'.pc = "drain"

DrainPending == reader.pc = "drain"

---------------------------------------------------------------------------
\* What send_message_until_acked writes again after a NAK.

\* the frames the call in progress has written, oldest first
AttemptsOf(c) == SubSeq(sent, Len(sent) - c.nsent + 1, Len(sent))

\* C36 (as stated): every frame send_message_until_acked writes after a NAK
\* has the type and the payload bytes of the frame of its first attempt,
\* whatever the NAK carried.
C36_RetransmitSame ==
    (caller.op = "send_message_until_acked" /\ caller.nsent >= 1) =>
        LET a == AttemptsOf(caller)
        IN  \A k \in DOMAIN a :
                a[k].type = a[1].type /\ a[k].payload = a[1].payload

\* what the code does: the type is kept, the payload of an attempt after the
\* first is the body of the NAK that answered the attempt before it
RetransmitNakBody ==
    (caller.op = "send_message_until_acked" /\ caller.nsent >= 1) =>
        LET a == AttemptsOf(caller)
        IN  \A k \in DOMAIN a :
                /\ a[k].type = a[1].type
                /\ k >= 2 => a[k].payload = caller.got[k - 1][2]

\* a second attempt has been written after a NAK without body
C36_Witness ==
    /\ caller.op = "send_message_until_acked"
    /\ caller.nsent = 2
    /\ caller.got[1] = <<1, <<>> >>
    /\ AttemptsOf(caller)[1].payload = <<5, 6>>

\* a second attempt after a NAK with a body
RetransmitAfterNakWithBody ==
    /\ caller.op = "send_message_until_acked"
    /\ caller.nsent = 2
    /\ caller.got[1] = <<1, <<3>> >>

---------------------------------------------------------------------------
\* The reader after frames for handlers that require a protocol version.

\* the minor version the handler of a type requires
RequiredMinor(ty) == IF ty = Chr("e") THEN 4 ELSE 2

\* the reader thread has not ended
ReaderRuns == reader.pc \notin {"crashed", "exited"}

\* frames for b, B and e that arrived on a session negotiated below the
\* handler's version
BelowVersion(e) ==
    /\ e.type \in {Chr("b"), Chr("B"), Chr("e")}
    /\ e.ver.attr /\ e.ver.chosen
    /\ e.ver.minor < RequiredMinor(e.type)

\* C37 (as stated): the reader keeps running after every asynchronous frame;
\* a b, B or e frame on a session negotiated below the version its handler
\* requires is dropped; a reply that arrives afterwards still reaches
\* send_message (the reader is there to deliver it).
C37_ReaderKeepsRunning ==
    /\ ReaderRuns
    /\ \A i \in DOMAIN dispatched :
          BelowVersion(dispatched[i]) => dispatched[i].gate = "dropped"

\* what the code does: only before the negotiation (no attribute minor) is the
\* frame dropped with the reader running on; below the version the handler
\* raises VersionError, which ends the reader
ReaderEndsBelowVersion ==
    \A i \in DOMAIN dispatched :
        LET e == dispatched[i]
        IN  /\ BelowVersion(e) => (e.gate = "raised" /\ ~ReaderRuns)
            /\ (e.type \in {Chr("b"), Chr("B"), Chr("e")} /\ ~e.ver.attr) =>
                  e.gate = "dropped"

\* a b frame has ended the reader of a session negotiated at 0.1, and the
\* reply to the request made afterwards stays on the line
C37_Witness ==
    /\ reader.pc = "crashed"
    /\ \E i \in DOMAIN dispatched :
        /\ dispatched[i].type = Chr("b")
        /\ BelowVersion(dispatched[i])
    /\ caller.pc = "wait" /\ caller.op = "send_message"
    /\ tx = <<>> /\ rx # <<>>

\* an e frame has ended the reader of a session negotiated at 0.3
ReaderEndedByExitFrame ==
    /\ reader.pc = "crashed"
    /\ \E i \in DOMAIN dispatched :
        dispatched[i].type = Chr("e") /\ BelowVersion(dispatched[i])

\* a frame that arrived before the negotiation was dropped and a later reply
\* was delivered
DroppedBeforeConnect ==
    /\ ReaderRuns
    /\ \E i \in DOMAIN dispatched :
        /\ dispatched[i].gate = "dropped"
        /\ \E j \in DOMAIN dispatched : j > i /\ dispatched[j].gate = "sync"
    /\ returns # <<>>

---------------------------------------------------------------------------
\* Replies that arrive while nothing awaits them.

\* C38 (as stated): an ACK or NAK that arrives while no request awaits a reply
\* is never what a later send_message returns.
C38_NoStaleReply ==
    \A k \in DOMAIN returns : returns[k][2] # StalePayload

\* what the code does: the reader puts the frame in the reply slot, where the
\* next send_message finds it; every value returned is a frame the reader put
\* there, in the order it put them
ReturnsAreSlotItems ==
    LET syncs == SelectSeq(dispatched, LAMBDA e : e.gate = "sync")
    IN  /\ Len(returns) <= Len(syncs)
        /\ \A k \in DOMAIN returns :
              returns[k] = <<syncs[k].type, syncs[k].msg>>

\* a send_message has returned the frame that arrived before its request was
\* written, and the board's answer to the request is left over
C38_Witness ==
    /\ \E i \in DOMAIN results :
        /\ results[i].op = "send_message"
        /\ results[i].kind = "return"
        /\ results[i].val = StalePayload
    /\ Len(replies) = Len(sent)
    /\ Len(returns) = Len(replies)
    /\ peer.unsolicited = 1

---------------------------------------------------------------------------
\* The user's breakpoints across a single step.

\* the breakpoint at a that was set before the step of done[i] is set after it:
\* the table entry with the instruction it displaced, the trap in memory
BreakpointKept(i, a) ==
    LET d == done[i]
    IN  Key(a) \in DOMAIN d.table0 =>
            /\ Key(a) \in DOMAIN d.table1
            /\ d.table1[Key(a)] = d.table0[Key(a)]
            /\ Halfword(d.after, a) = TrapBytes

\* C39 (as stated): every address that had a soft breakpoint before an s
\* packet has it after the packet completes (table entry with the original
\* instruction, trap in memory), next_pc included.
C39_StepKeepsBreakpoints ==
    \A i \in DOMAIN done : \A a \in StepAddrs : IsStep(i) => BreakpointKept(i, a)

\* ... which holds of every address but next_pc
StepKeepsOtherBreakpoints ==
    \A i \in DOMAIN done : \A a \in StepAddrs :
        (IsStep(i) /\ a # done[i].brk) => BreakpointKept(i, a)

\* a step has removed the user's breakpoint at next_pc and kept the one at PC
C39_Witness ==
    \E i \in DOMAIN done : \E a, b \in StepAddrs :
        /\ IsStep(i)
        /\ a = done[i].brk /\ b = done[i].spc
        /\ Key(a) \in DOMAIN done[i].table0
        /\ Key(b) \in DOMAIN done[i].table0
        /\ ~BreakpointKept(i, a)
        /\ BreakpointKept(i, b)

---------------------------------------------------------------------------
\* The interrupt byte with the target halted.

\* done[i] is the command of an interrupt byte, taken up with the target
\* halted
IsInterruptHalted(i) == done[i].cmd = "_ctrlc_" /\ done[i].halted

\* C40 (as stated): an interrupt request taken up while the target is halted
\* leaves the controller running and the halt state as it was, so that the
\* packets after it are served.
C40_CtrlCWhileHalted ==
    \A i \in DOMAIN done :
        IsInterruptHalted(i) =>
            /\ done[i].exc = ""
            /\ done[i].halted1
            /\ ctrl.pc # "crashed"

\* what the code does: halt() asserts that flag_addr is unset; the halt
\* state stays, the controller thread ends with AssertionError
CtrlCWhileHaltedAsserts ==
    \A i \in DOMAIN done :
        IsInterruptHalted(i) =>
            /\ done[i].exc = "AssertionError"
            /\ done[i].halted1 /\ IsHalted
            /\ done[i].log1 = done[i].log0
            /\ i = Len(done)
            /\ ctrl.pc = "crashed"

\* the interrupt byte was taken up after the target had halted at a
\* breakpoint, the controller has ended, and a request made afterwards waits
\* in the queue
C40_Witness ==
    /\ \E i \in DOMAIN done : IsInterruptHalted(i)
    /\ ctrl.pc = "crashed"
    /\ IsHalted
    /\ reqQ # <<>>

===========================================================================
